---- MODULE Spec2Model ----
(***************************************************************************)
(* Model of the kawaiigpt analysis scripts: the AST fact extractor that    *)
(* extract_knowledge.py generates, the keyword categorizer of              *)
(* sensai_feature_analysis.py and the driver loops around them.            *)
(*                                                                         *)
(* Python values are modelled as follows: str as TLA+ strings (Len, \o and *)
(* SubSeq act on them), list as sequences, dict as records or functions,   *)
(* an optional value (None or x) as the sequence <<>> or <<x>>.            *)
(***************************************************************************)
EXTENDS Integers, Sequences, FiniteSets, TLC

VARIABLES
    input,         \* argument of the call under analysis (a file state or a name)
    pc,            \* position of the running script or call
    ret,           \* value the call under analysis returned
    driver,        \* the script that runs
    fs,            \* the target project: path -> state of the file there
    idx,           \* position of the running loop in its list (1-based)
    local,         \* the running script's variables
    out            \* the output files written, path -> content, in writing order

vars == <<input, pc, ret, driver, fs, idx, local, out>>
callVars == <<driver, fs, idx, local, out>>

(***************************************************************************)
(* Bounds of the input catalogue.                                          *)
(***************************************************************************)
MaxParams == 2
MaxBases == 2
MaxStmts == 2

(***************************************************************************)
(* Strings.                                                                *)
(***************************************************************************)
RECURSIVE SeqSum(_)
SeqSum(s) == IF s = <<>> THEN 0 ELSE Head(s) + SeqSum(Tail(s))

RECURSIVE Flatten(_)
Flatten(ss) == IF ss = <<>> THEN <<>> ELSE Head(ss) \o Flatten(Tail(ss))

RECURSIVE Join(_)
Join(ss) == IF ss = <<>> THEN "" ELSE Head(ss) \o Join(Tail(ss))

RECURSIVE JoinWith(_, _)
JoinWith(sep, ss) ==
    IF ss = <<>> THEN ""
    ELSE IF Len(ss) = 1 THEN Head(ss)
    ELSE Head(ss) \o sep \o JoinWith(sep, Tail(ss))

SelectIdx(s, P(_)) == { i \in 1..Len(s) : P(s[i]) }
Count(s, P(_)) == Cardinality(SelectIdx(s, P))

\* kw in s
Contains(kw, s) ==
    \E i \in 1..(Len(s) - Len(kw) + 1) : SubSeq(s, i, i + Len(kw) - 1) = kw

UpperCase == "ABCDEFGHIJKLMNOPQRSTUVWXYZ"
LowerCase == "abcdefghijklmnopqrstuvwxyz"

LowerChar(c) ==
    IF \E i \in 1..Len(UpperCase) : SubSeq(UpperCase, i, i) = c
    THEN LET i == CHOOSE k \in 1..Len(UpperCase) : SubSeq(UpperCase, k, k) = c
         IN  SubSeq(LowerCase, i, i)
    ELSE c

\* str.lower()
lower(s) == Join([i \in 1..Len(s) |-> LowerChar(SubSeq(s, i, i))])

\* os.path.basename(p): the text after the last "/"
basename(p) ==
    LET slashes == { i \in 1..Len(p) : SubSeq(p, i, i) = "/" }
        last == IF slashes = {} THEN 0
                ELSE CHOOSE i \in slashes : \A j \in slashes : j <= i
    IN  SubSeq(p, last + 1, Len(p))

(***************************************************************************)
(* Python ast nodes, as the standard library's ast module builds them.     *)
(***************************************************************************)
Name(id) == [type |-> "Name", id |-> id]
Attribute(value, attr) == [type |-> "Attribute", value |-> value, attr |-> attr]
Call(func, args) == [type |-> "Call", func |-> func, args |-> args]
Constant(v) == [type |-> "Constant", value |-> v]
TupleNode(elts) == [type |-> "Tuple", elts |-> elts]
Subscript(value, slice) == [type |-> "Subscript", value |-> value, slice |-> slice]
Arg(a) == [type |-> "arg", arg |-> a]
Arguments(posonlyargs, args, vararg, kwonlyargs, kwarg) ==
    [type |-> "arguments", posonlyargs |-> posonlyargs, args |-> args,
     vararg |-> vararg, kwonlyargs |-> kwonlyargs, kwarg |-> kwarg]
FunctionDef(name, args, body, decorator_list) ==
    [type |-> "FunctionDef", name |-> name, args |-> args, body |-> body,
     decorator_list |-> decorator_list]
AsyncFunctionDef(name, args, body, decorator_list) ==
    [type |-> "AsyncFunctionDef", name |-> name, args |-> args, body |-> body,
     decorator_list |-> decorator_list]
ClassDef(name, bases, body) ==
    [type |-> "ClassDef", name |-> name, bases |-> bases, body |-> body]
Alias(name, asname) == [type |-> "alias", name |-> name, asname |-> asname]
Import(names) == [type |-> "Import", names |-> names]
ImportFrom(module, names, level) ==
    [type |-> "ImportFrom", module |-> module, names |-> names, level |-> level]
Assign(targets, value) == [type |-> "Assign", targets |-> targets, value |-> value]
Expr(value) == [type |-> "Expr", value |-> value]
Pass == [type |-> "Pass"]
Module(body) == [type |-> "Module", body |-> body]

\* ast.iter_child_nodes: the child nodes in the order of the node's _fields
iter_child_nodes(n) ==
    CASE n.type = "Module" -> n.body
      [] n.type \in {"FunctionDef", "AsyncFunctionDef"} ->
            <<n.args>> \o n.body \o n.decorator_list
      [] n.type = "arguments" ->
            n.posonlyargs \o n.args \o n.vararg \o n.kwonlyargs \o n.kwarg
      [] n.type = "ClassDef" -> n.bases \o n.body
      [] n.type \in {"Import", "ImportFrom"} -> n.names
      [] n.type = "Assign" -> n.targets \o <<n.value>>
      [] n.type = "Expr" -> <<n.value>>
      [] n.type = "Call" -> <<n.func>> \o n.args
      [] n.type = "Attribute" -> <<n.value>>
      [] n.type = "Tuple" -> n.elts
      [] n.type = "Subscript" -> <<n.value, n.slice>>
      [] OTHER -> <<>>

\* ast.walk: breadth-first, the node itself first
RECURSIVE WalkQueue(_)
WalkQueue(todo) ==
    IF todo = <<>> THEN <<>>
    ELSE <<Head(todo)>> \o WalkQueue(Tail(todo) \o iter_child_nodes(Head(todo)))

walk(tree) == WalkQueue(<<tree>>)

(***************************************************************************)
(* The fact extractor of the script that extract_knowledge.py generates.   *)
(***************************************************************************)
Triple(s, p, o, c, g) ==
    [subject |-> s, predicate |-> p, object |-> o, context |-> c, graph |-> g]

\* the branch for ast.FunctionDef: node.args.args are the positional-or-keyword
\* parameters only
FunctionDefTriples(node, file_path) ==
    <<Triple(node.name, "is_a", "function", file_path, "code_structure")>>
    \o [i \in 1..Len(node.args.args) |->
          Triple(node.name, "has_parameter", node.args.args[i].arg, file_path,
                 "code_structure")]

\* mutant: a fact for every base, the attribute name standing in for a missing id
ClassDefTriples_AllBases(node, file_path) ==
    LET id(b) == IF b.type = "Name" THEN b.id
                 ELSE IF b.type = "Attribute" THEN b.attr ELSE "?"
    IN  <<Triple(node.name, "is_a", "class", file_path, "code_structure")>>
        \o [i \in 1..Len(node.bases) |->
              Triple(node.name, "inherits_from", id(node.bases[i]), file_path,
                     "inheritance")]

\* the branch for ast.ClassDef
ClassDefTriples(node, file_path) ==
    LET named == SelectSeq(node.bases, LAMBDA b : b.type = "Name")
    IN  <<Triple(node.name, "is_a", "class", file_path, "code_structure")>>
        \o [i \in 1..Len(named) |->
              Triple(node.name, "inherits_from", named[i].id, file_path,
                     "inheritance")]

\* mutant: the name the module is bound to (its alias) as object
ImportTriples_BoundName(node, file_path) ==
    [i \in 1..Len(node.names) |->
        Triple(basename(file_path), "imports",
               IF node.names[i].asname = <<>> THEN node.names[i].name
               ELSE node.names[i].asname[1],
               file_path, "dependencies")]

\* the branch for ast.Import
ImportTriples(node, file_path) ==
    [i \in 1..Len(node.names) |->
        Triple(basename(file_path), "imports", node.names[i].name, file_path,
               "dependencies")]

\* the branch for ast.ImportFrom: nothing when node.module is None
ImportFromTriples(node, file_path) ==
    IF node.module = <<>> \/ node.module = <<"">> THEN <<>>
    ELSE [i \in 1..Len(node.names) |->
            Triple(basename(file_path), "imports_from",
                   node.module[1] \o "." \o node.names[i].name, file_path,
                   "dependencies")]

\* mutant: a fact for the first target only
AssignTriples_FirstTarget(node, file_path) ==
    LET named == SelectSeq(SubSeq(node.targets, 1, 1), LAMBDA t : t.type = "Name")
    IN  [i \in 1..Len(named) |->
            Triple(named[i].id, "assigned_in", basename(file_path), file_path,
                   "code_structure")]

\* the branch for ast.Assign
AssignTriples(node, file_path) ==
    LET named == SelectSeq(node.targets, LAMBDA t : t.type = "Name")
    IN  [i \in 1..Len(named) |->
            Triple(named[i].id, "assigned_in", basename(file_path), file_path,
                   "code_structure")]

\* mutant: a method call filed under the name of the method
CallTriples_MethodsToo(node, file_path) ==
    IF node.func.type \in {"Name", "Attribute"}
    THEN <<Triple(basename(file_path), "calls",
                  IF node.func.type = "Name" THEN node.func.id ELSE node.func.attr,
                  file_path, "call_graph")>>
    ELSE <<>>

\* the branch for ast.Call
CallTriples(node, file_path) ==
    IF node.func.type = "Name"
    THEN <<Triple(basename(file_path), "calls", node.func.id, file_path,
                  "call_graph")>>
    ELSE <<>>

\* isinstance(node, ast.X) is exact here: none of the tested classes is a
\* subclass of another (ast.AsyncFunctionDef is not an ast.FunctionDef)
extract_triples_from_ast(node, file_path) ==
    CASE node.type = "FunctionDef" -> FunctionDefTriples(node, file_path)
      [] node.type = "ClassDef" -> ClassDefTriples(node, file_path)
      [] node.type = "Import" -> ImportTriples(node, file_path)
      [] node.type = "ImportFrom" -> ImportFromTriples(node, file_path)
      [] node.type = "Assign" -> AssignTriples(node, file_path)
      [] node.type = "Call" -> CallTriples(node, file_path)
      [] OTHER -> <<>>

\* triple.get(key, default)
DictGet(d, key, default) == IF key \in DOMAIN d THEN d[key] ELSE default

QuadOf(triple, file_path) ==
    [subject |-> triple.subject, predicate |-> triple.predicate,
     object |-> triple.object,
     graph |-> DictGet(triple, "graph", "default"),
     context |-> DictGet(triple, "context", file_path)]

extract_quads_from_relationships(triples, file_path) ==
    [i \in 1..Len(triples) |-> QuadOf(triples[i], file_path)]

(***************************************************************************)
(* A file of the target project, as open/read and ast.parse see it:        *)
(*   [kind |-> "missing"], [kind |-> "unreadable"] (open raises), or       *)
(*   [kind |-> "file", text, parse] where parse is what ast.parse(text)    *)
(*   does: [ok |-> TRUE, tree] or [ok |-> FALSE, exc].                     *)
(***************************************************************************)
Missing == [kind |-> "missing"]
Unreadable == [kind |-> "unreadable"]
Parsed(text, tree) ==
    [kind |-> "file", text |-> text, parse |-> [ok |-> TRUE, tree |-> tree]]
Unparsable(text, exc) ==
    [kind |-> "file", text |-> text, parse |-> [ok |-> FALSE, exc |-> exc]]

\* the exception open() raises on the file, <<>> when it opens
OpenError(f) ==
    CASE f.kind = "missing" -> <<"FileNotFoundError">>
      [] f.kind = "unreadable" -> <<"PermissionError">>
      [] OTHER -> <<>>

ErrorResult(file_path, e) ==
    [file |-> file_path, error |-> e, triples |-> <<>>, quads |-> <<>>]

\* analyze_file(file_path) with the file at that path in state f
analyze_file(file_path, f) ==
    IF OpenError(f) # <<>> THEN ErrorResult(file_path, OpenError(f)[1])
    ELSE IF ~f.parse.ok THEN ErrorResult(file_path, f.parse.exc)
    ELSE LET nodes == walk(f.parse.tree)
             all_triples ==
                 Flatten([i \in 1..Len(nodes) |->
                            extract_triples_from_ast(nodes[i], file_path)])
         IN  [file |-> file_path, triples |-> all_triples,
              quads |-> extract_quads_from_relationships(all_triples, file_path)]

(***************************************************************************)
(* The inputs: source files given by their syntax tree, with the text the  *)
(* tree is parsed from, and files ast.parse rejects, given by their text.  *)
(***************************************************************************)
Indent(n) == Join([i \in 1..n |-> "    "])

RECURSIVE UnparseExpr(_)
UnparseExpr(e) ==
    CASE e.type = "Name" -> e.id
      [] e.type = "Attribute" -> UnparseExpr(e.value) \o "." \o e.attr
      [] e.type = "Call" ->
            UnparseExpr(e.func) \o "("
            \o JoinWith(", ", [i \in 1..Len(e.args) |-> UnparseExpr(e.args[i])])
            \o ")"
      [] e.type = "Tuple" ->
            JoinWith(", ", [i \in 1..Len(e.elts) |-> UnparseExpr(e.elts[i])])
      [] e.type = "Subscript" ->
            UnparseExpr(e.value) \o "[" \o UnparseExpr(e.slice) \o "]"
      [] OTHER -> e.value

UnparseArguments(a) ==
    LET names(xs) == [i \in 1..Len(xs) |-> xs[i].arg]
        star == IF a.vararg # <<>> THEN <<"*" \o a.vararg[1].arg>>
                ELSE IF a.kwonlyargs # <<>> THEN <<"*">> ELSE <<>>
    IN  JoinWith(", ",
            names(a.posonlyargs)
            \o (IF a.posonlyargs # <<>> THEN <<"/">> ELSE <<>>)
            \o names(a.args) \o star \o names(a.kwonlyargs)
            \o (IF a.kwarg # <<>> THEN <<"**" \o a.kwarg[1].arg>> ELSE <<>>))

UnparseAlias(a) ==
    a.name \o (IF a.asname # <<>> THEN " as " \o a.asname[1] ELSE "")

RECURSIVE UnparseStmt(_, _)
UnparseStmt(n, depth) ==
    LET block(body) ==
            Join([i \in 1..Len(body) |-> UnparseStmt(body[i], depth + 1)])
        aliases == JoinWith(", ", [i \in 1..Len(n.names) |-> UnparseAlias(n.names[i])])
    IN
    CASE n.type \in {"FunctionDef", "AsyncFunctionDef"} ->
            Join([i \in 1..Len(n.decorator_list) |->
                    Indent(depth) \o "@" \o UnparseExpr(n.decorator_list[i]) \o "\n"])
            \o Indent(depth)
            \o (IF n.type = "AsyncFunctionDef" THEN "async def " ELSE "def ")
            \o n.name \o "(" \o UnparseArguments(n.args) \o "):\n" \o block(n.body)
      [] n.type = "ClassDef" ->
            Indent(depth) \o "class " \o n.name
            \o (IF n.bases = <<>> THEN ""
                ELSE "(" \o JoinWith(", ", [i \in 1..Len(n.bases) |->
                                              UnparseExpr(n.bases[i])]) \o ")")
            \o ":\n" \o block(n.body)
      [] n.type = "Import" -> Indent(depth) \o "import " \o aliases \o "\n"
      [] n.type = "ImportFrom" ->
            Indent(depth) \o "from " \o Join([i \in 1..n.level |-> "."])
            \o (IF n.module = <<>> THEN "" ELSE n.module[1])
            \o " import " \o aliases \o "\n"
      [] n.type = "Assign" ->
            Indent(depth)
            \o Join([i \in 1..Len(n.targets) |-> UnparseExpr(n.targets[i]) \o " = "])
            \o UnparseExpr(n.value) \o "\n"
      [] n.type = "Expr" -> Indent(depth) \o UnparseExpr(n.value) \o "\n"
      [] OTHER -> Indent(depth) \o "pass\n"

SourceOf(tree) == Join([i \in 1..Len(tree.body) |-> UnparseStmt(tree.body[i], 0)])

\* sequences over S of length 0..n
RECURSIVE SeqsUpTo(_, _)
SeqsUpTo(S, n) ==
    IF n = 0 THEN {<<>>}
    ELSE LET shorter == SeqsUpTo(S, n - 1)
         IN  shorter \cup { Append(q, x) : q \in shorter, x \in S }

ParamNames == <<"a", "b", "c", "d">>
PositionalParams == { [i \in 1..n |-> Arg(ParamNames[i])] : n \in 0..MaxParams }
ArgumentShapes ==
    { Arguments(<<>>, ps, <<>>, <<>>, <<>>) : ps \in PositionalParams }
    \cup { Arguments(<<Arg("p")>>, ps, <<>>, <<>>, <<>>) : ps \in PositionalParams }
    \cup { Arguments(<<>>, ps, <<Arg("args")>>, <<>>, <<>>) : ps \in PositionalParams }
    \cup { Arguments(<<>>, ps, <<>>, <<Arg("k")>>, <<>>) : ps \in PositionalParams }
    \cup { Arguments(<<>>, ps, <<>>, <<>>, <<Arg("kw")>>) : ps \in PositionalParams }
NoArguments == Arguments(<<>>, <<>>, <<>>, <<>>, <<>>)

FunctionStmts ==
    { FunctionDef("foo", a, <<Pass>>, <<>>) : a \in ArgumentShapes }
    \cup { AsyncFunctionDef("fetch", a, <<Pass>>, <<>>) : a \in ArgumentShapes }
    \cup { FunctionDef("outer", NoArguments,
                       <<FunctionDef("inner", Arguments(<<>>, <<Arg("a")>>, <<>>, <<>>, <<>>),
                                     <<Pass>>, <<>>)>>, <<>>),
           FunctionDef("outer", NoArguments,
                       <<AsyncFunctionDef("inner", NoArguments, <<Pass>>, <<>>)>>, <<>>),
           FunctionDef("wrapped", NoArguments, <<Pass>>,
                       <<Call(Name("deco"), <<Name("x")>>)>>) }

BaseExprs ==
    { Name("Base"), Name("Mixin"), Attribute(Name("abc"), "ABC"),
      Call(Name("make_base"), <<>>) }
ClassStmts ==
    { ClassDef("Bar", bases, <<Pass>>) : bases \in SeqsUpTo(BaseExprs, MaxBases) }
    \cup { ClassDef("Svc", <<Name("Base")>>,
                    <<FunctionDef("run", Arguments(<<>>, <<Arg("self")>>, <<>>, <<>>, <<>>),
                                  <<Pass>>, <<>>)>>),
           ClassDef("Svc", <<>>,
                    <<AsyncFunctionDef("run", Arguments(<<>>, <<Arg("self")>>, <<>>, <<>>, <<>>),
                                       <<Pass>>, <<>>)>>) }

ImportStmts ==
    { Import(<<Alias("os", <<>>)>>),
      Import(<<Alias("os", <<>>), Alias("sys", <<"s">>)>>),
      Import(<<Alias("os.path", <<"p">>)>>),
      ImportFrom(<<"pkg">>, <<Alias("x", <<>>)>>, 0),
      ImportFrom(<<"pkg.sub">>, <<Alias("x", <<>>), Alias("y", <<"z">>)>>, 0),
      ImportFrom(<<>>, <<Alias("x", <<>>)>>, 1),
      ImportFrom(<<"pkg">>, <<Alias("x", <<>>)>>, 2) }

AssignStmts ==
    { Assign(<<Name("a")>>, Constant("1")),
      Assign(<<Name("a"), Name("b")>>, Constant("1")),
      Assign(<<TupleNode(<<Name("a"), Name("b")>>)>>, Name("t")),
      Assign(<<Attribute(Name("obj"), "x")>>, Constant("1")),
      Assign(<<Subscript(Name("d"), Constant("0")), Name("a")>>, Constant("1")),
      Assign(<<Name("a"), Attribute(Name("obj"), "x")>>, Call(Name("foo"), <<>>)) }

CallStmts ==
    { Expr(Call(Name("foo"), <<>>)),
      Expr(Call(Attribute(Name("obj"), "method"), <<>>)),
      Expr(Call(Name("foo"), <<Call(Name("foo"), <<>>)>>)),
      Expr(Call(Call(Name("factory"), <<>>), <<>>)) }

Stmts == FunctionStmts \cup ClassStmts \cup ImportStmts \cup AssignStmts \cup CallStmts

\* what may follow the statement under study in a module
Followers ==
    <<FunctionDef("main", NoArguments, <<Pass>>, <<>>),
      Expr(Call(Name("main"), <<>>)),
      ClassDef("Tail", <<Name("Base")>>, <<Pass>>),
      Import(<<Alias("json", <<>>)>>)>>

Trees ==
    {Module(<<>>)}
    \cup { Module(<<st>> \o SubSeq(Followers, 1, k)) : st \in Stmts, k \in 0..(MaxStmts - 1) }

ParsedFiles == { Parsed(SourceOf(t), t) : t \in Trees }

UnparsableFiles ==
    { Unparsable("def foo(:\n    pass\n", "SyntaxError"),
      Unparsable("((\n", "SyntaxError"),
      Unparsable("import os\nclass Bar(Base)\n    pass\n", "SyntaxError"),
      Unparsable("from pkg import x\ndef run(a, b) return a\n", "SyntaxError"),
      Unparsable("exec((_)(b'abc'))\n))\n", "SyntaxError") }

Files == ParsedFiles \cup UnparsableFiles
FileStates == Files \cup {Missing, Unreadable}

InstallPy == "/workspace/kawaiigpt/install.py"
KawaiPy == "/workspace/kawaiigpt/kawai.py"

(***************************************************************************)
(* analyze_file called on one file.                                        *)
(***************************************************************************)
NoResult == [file |-> "", triples |-> <<>>, quads |-> <<>>]

\* no script runs while a single call is studied
NoDriver ==
    /\ driver = "none"
    /\ fs = <<>>
    /\ idx = 0
    /\ local = <<>>
    /\ out = <<>>

InitAst ==
    /\ input \in FileStates
    /\ pc = "call"
    /\ ret = NoResult
    /\ NoDriver

CallAnalyzeFile ==
    /\ pc = "call"
    /\ ret' = analyze_file(InstallPy, input)
    /\ pc' = "returned"
    /\ UNCHANGED <<input, callVars>>

SpecAst == InitAst /\ [][CallAnalyzeFile]_vars

(***************************************************************************)
(* Claims about analyze_file on one file (SpecAst).                        *)
(***************************************************************************)
Returned == pc = "returned"
ParsedInput == input.kind = "file" /\ input.parse.ok
InputNodes == walk(input.parse.tree)
SPO(t) == <<t.subject, t.predicate, t.object>>
SPOs(ts) == [i \in 1..Len(ts) |-> SPO(ts[i])]
IsFunctionFact(t) == t.predicate = "is_a" /\ t.object = "function"
IsFunctionDefinition(n) == n.type \in {"FunctionDef", "AsyncFunctionDef"}

\* C1: for a file that parses, the number of is_a/function facts analyze_file
\* returns equals the number of function definitions in the file, top-level,
\* nested, methods and async def alike.
C1_FunctionFactsCountDefinitions ==
    (Returned /\ ParsedInput) =>
        Count(ret.triples, IsFunctionFact)
            = Count(InputNodes, IsFunctionDefinition)

\* every parameter of the signature, in declaration order
DeclaredParameters(a) ==
    a.posonlyargs \o a.args \o a.vararg \o a.kwonlyargs \o a.kwarg

FunctionFactsClaimed(n) ==
    <<<<n.name, "is_a", "function">>>>
    \o [i \in 1..Len(DeclaredParameters(n.args)) |->
          <<n.name, "has_parameter", DeclaredParameters(n.args)[i].arg>>]

\* C2: each def node yields exactly its is_a/function fact followed by one
\* has_parameter fact per declared parameter, in declaration order, and
\* nothing else: the function facts of the file are exactly these, node by node.
C2_FunctionFactsPerDeclaredParameter ==
    (Returned /\ ParsedInput) =>
        LET defs == SelectSeq(InputNodes, LAMBDA n : n.type = "FunctionDef")
            facts == SelectSeq(ret.triples,
                               LAMBDA t : IsFunctionFact(t) \/ t.predicate = "has_parameter")
        IN  SPOs(facts) = Flatten([i \in 1..Len(defs) |-> FunctionFactsClaimed(defs[i])])

ClassFactsClaimed(n) ==
    LET simple == SelectSeq(n.bases, LAMBDA b : b.type = "Name")
    IN  <<<<n.name, "is_a", "class">>>>
        \o [i \in 1..Len(simple) |-> <<n.name, "inherits_from", simple[i].id>>]

IsClassFact(t) ==
    (t.predicate = "is_a" /\ t.object = "class") \/ t.predicate = "inherits_from"

\* C3: each class definition yields exactly one is_a/class fact and one
\* inherits_from fact per base that is a simple identifier, none for attribute
\* or computed bases: the class facts of the file are exactly these, node by node.
C3_ClassFactsPerSimpleBase ==
    (Returned /\ ParsedInput) =>
        LET classes == SelectSeq(InputNodes, LAMBDA n : n.type = "ClassDef")
            facts == SelectSeq(ret.triples, IsClassFact)
        IN  SPOs(facts) = Flatten([i \in 1..Len(classes) |-> ClassFactsClaimed(classes[i])])

\* a class with a simple and a non-simple base has been analysed
C3_Witness ==
    /\ Returned /\ ParsedInput
    /\ \E i \in 1..Len(InputNodes) :
          /\ InputNodes[i].type = "ClassDef"
          /\ \E j, k \in 1..Len(InputNodes[i].bases) :
                /\ InputNodes[i].bases[j].type = "Name"
                /\ InputNodes[i].bases[k].type # "Name"
    /\ \E i \in 1..Len(ret.triples) :
          ret.triples[i].predicate = "inherits_from"

IsImportFromFact(t) == t.predicate = "imports_from"

\* the names a from-import statement imports, over all such statements
RECURSIVE NamesImported(_)
NamesImported(nodes) ==
    IF nodes = <<>> THEN 0 ELSE Len(Head(nodes).names) + NamesImported(Tail(nodes))

ImportFromFactsClaimed(n) ==
    [i \in 1..Len(n.names) |->
        <<basename(InstallPy), "imports_from", n.module[1] \o "." \o n.names[i].name>>]

\* C20: every from-import statement of a parsed file yields one imports_from
\* fact per imported name, relative imports included, with the base name of
\* the file as subject and module.name as object.
C20_ImportsFromPerName ==
    (Returned /\ ParsedInput) =>
        LET froms == SelectSeq(InputNodes, LAMBDA n : n.type = "ImportFrom")
            named == SelectSeq(froms, LAMBDA n : n.module # <<>>)
            facts == SelectSeq(ret.triples, IsImportFromFact)
        IN  /\ Len(facts) = NamesImported(froms)
            /\ SPOs(facts)
                  = Flatten([i \in 1..Len(named) |-> ImportFromFactsClaimed(named[i])])

IsImportFact(t) == t.predicate = "imports"

ImportFactsClaimed(n) ==
    [i \in 1..Len(n.names) |-> <<"install.py", "imports", n.names[i].name>>]

\* C21: every plain import statement of a parsed file yields one imports fact
\* per imported name, with the base name of the file as subject and the name
\* of the imported module, not its alias, as object.
C21_ImportsPerName ==
    (Returned /\ ParsedInput) =>
        LET plain == SelectSeq(InputNodes, LAMBDA n : n.type = "Import")
            facts == SelectSeq(ret.triples, IsImportFact)
        IN  SPOs(facts) = Flatten([i \in 1..Len(plain) |-> ImportFactsClaimed(plain[i])])

\* `import os, sys as s` has been analysed: two facts, the second for sys
C21_Witness ==
    /\ Returned /\ ParsedInput
    /\ \E i \in 1..Len(InputNodes) :
          /\ InputNodes[i].type = "Import"
          /\ Len(InputNodes[i].names) = 2
          /\ InputNodes[i].names[2].asname # <<>>
    /\ Len(SelectSeq(ret.triples, IsImportFact)) = 2
    /\ \E i \in 1..Len(ret.triples) :
          SPO(ret.triples[i]) = <<"install.py", "imports", "sys">>

IsAssignFact(t) == t.predicate = "assigned_in"

AssignFactsClaimed(n) ==
    LET bare == SelectSeq(n.targets, LAMBDA target : target.type = "Name")
    IN  [i \in 1..Len(bare) |-> <<bare[i].id, "assigned_in", "install.py">>]

\* the node types extract_triples_from_ast has a branch for, Assign apart
YieldsOtherFacts(n) ==
    n.type \in {"FunctionDef", "ClassDef", "Import", "ImportFrom", "Call"}

\* C23: every assignment statement of a parsed file yields one assigned_in
\* fact per target that is a bare name, variable name to file base name, and
\* none for tuple, attribute or subscript targets; a file whose other nodes
\* yield no facts has these facts and no others.
C23_AssignedInPerBareTarget ==
    (Returned /\ ParsedInput) =>
        LET assigns == SelectSeq(InputNodes, LAMBDA n : n.type = "Assign")
            claimed == Flatten([i \in 1..Len(assigns) |-> AssignFactsClaimed(assigns[i])])
        IN  /\ SPOs(SelectSeq(ret.triples, IsAssignFact)) = claimed
            /\ (\A i \in 1..Len(InputNodes) : ~YieldsOtherFacts(InputNodes[i]))
                  => SPOs(ret.triples) = claimed

\* `d[0] = a = 1` alone in a file: one fact, for a
C23_Witness ==
    /\ Returned /\ ParsedInput
    /\ \E i \in 1..Len(InputNodes) :
          /\ InputNodes[i].type = "Assign"
          /\ \E j, k \in 1..Len(InputNodes[i].targets) :
                /\ InputNodes[i].targets[j].type = "Subscript"
                /\ InputNodes[i].targets[k].type = "Name"
    /\ \A i \in 1..Len(InputNodes) : ~YieldsOtherFacts(InputNodes[i])
    /\ SPOs(ret.triples) = <<<<"a", "assigned_in", "install.py">>>>

IsCallFact(t) == t.predicate = "calls"

\* C24: every call whose callee is a bare name yields one calls fact, file
\* base name to callee name, call site by call site, and calls through an
\* attribute or another expression yield none.
C24_CallsPerBareCallee ==
    (Returned /\ ParsedInput) =>
        LET bare == SelectSeq(InputNodes,
                              LAMBDA n : n.type = "Call" /\ n.func.type = "Name")
        IN  SPOs(SelectSeq(ret.triples, IsCallFact))
               = [i \in 1..Len(bare) |-> <<"install.py", "calls", bare[i].func.id>>]

\* `foo(foo())` has been analysed: the same fact twice
C24_Witness ==
    /\ Returned /\ ParsedInput
    /\ \E a, b \in 1..Len(ret.triples) :
          /\ a < b
          /\ SPO(ret.triples[a]) = <<"install.py", "calls", "foo">>
          /\ SPO(ret.triples[b]) = <<"install.py", "calls", "foo">>

\* C8: a file that ast.parse rejects yields a non-empty, regex-derived result
\* and no error.
C8_ParseFailureGivesFacts ==
    (Returned /\ input.kind = "file" /\ ~input.parse.ok) =>
        /\ ret.triples # <<>>
        /\ "error" \notin DOMAIN ret

(***************************************************************************)
(* The regular expressions of the scripts, matched as Python's re does.    *)
(***************************************************************************)
Ch(s, i) == SubSeq(s, i, i)
IsSpace(c) == c \in {" ", "\t", "\n", "\r", "\f"}
WordChars ==
    { Ch(LowerCase, i) : i \in 1..Len(LowerCase) }
    \cup { Ch(UpperCase, i) : i \in 1..Len(UpperCase) }
    \cup {"0", "1", "2", "3", "4", "5", "6", "7", "8", "9", "_"}
IsWord(c) == c \in WordChars
IsNonSpace(c) == ~IsSpace(c)

\* the literal lit occurs in s at position i
LitAt(s, i, lit) ==
    i >= 1 /\ i + Len(lit) - 1 <= Len(s) /\ SubSeq(s, i, i + Len(lit) - 1) = lit

\* the end (exclusive) of the longest run from i of characters satisfying P
RunEnd(s, i, P(_)) ==
    CHOOSE j \in i..(Len(s) + 1) :
        /\ \A k \in i..(j - 1) : P(Ch(s, k))
        /\ j = Len(s) + 1 \/ ~P(Ch(s, j))

NoMatch == <<>>
Match(end, group) == <<[end |-> end, group |-> group]>>

\* r'def\s+(\w+)\s*\(' at position i
FuncPatternAt(s, i) ==
    IF ~LitAt(s, i, "def") THEN NoMatch
    ELSE LET b == RunEnd(s, i + 3, IsSpace)
             c == RunEnd(s, b, IsWord)
             d == RunEnd(s, c, IsSpace)
         IN  IF b > i + 3 /\ c > b /\ LitAt(s, d, "(")
             THEN Match(d + 1, SubSeq(s, b, c - 1))
             ELSE NoMatch

\* r'class\s+(\w+)' at position i
ClassPatternAt(s, i) ==
    IF ~LitAt(s, i, "class") THEN NoMatch
    ELSE LET b == RunEnd(s, i + 5, IsSpace)
             c == RunEnd(s, b, IsWord)
         IN  IF b > i + 5 /\ c > b THEN Match(c, SubSeq(s, b, c - 1)) ELSE NoMatch

\* r'import\s+(\S+)' at position i; the group is group 2
PlainImportAt(s, i) ==
    IF ~LitAt(s, i, "import") THEN NoMatch
    ELSE LET b == RunEnd(s, i + 6, IsSpace)
             c == RunEnd(s, b, IsNonSpace)
         IN  IF b > i + 6 /\ c > b THEN Match(c, SubSeq(s, b, c - 1)) ELSE NoMatch

\* r'^(?:from\s+(\S+)\s+)?import\s+(\S+)' with re.MULTILINE at position i;
\* the group kept is `group(1) or group(2)`
ImportPatternAt(s, i) ==
    IF ~(i = 1 \/ Ch(s, i - 1) = "\n") THEN NoMatch
    ELSE IF LitAt(s, i, "from")
    THEN LET b == RunEnd(s, i + 4, IsSpace)
             c == RunEnd(s, b, IsNonSpace)
             d == RunEnd(s, c, IsSpace)
             m == PlainImportAt(s, d)
         IN  IF b > i + 4 /\ c > b /\ d > c /\ m # NoMatch
             THEN Match(m[1].end, SubSeq(s, b, c - 1))
             ELSE NoMatch
    ELSE PlainImportAt(s, i)

PatternAt(pattern, s, i) ==
    CASE pattern = "func" -> FuncPatternAt(s, i)
      [] pattern = "class" -> ClassPatternAt(s, i)
      [] pattern = "import" -> ImportPatternAt(s, i)

\* re.finditer: the groups of the non-overlapping matches, left to right
RECURSIVE FindFrom(_, _, _)
FindFrom(pattern, s, i) ==
    IF i > Len(s) THEN <<>>
    ELSE LET m == PatternAt(pattern, s, i)
         IN  IF m = NoMatch THEN FindFrom(pattern, s, i + 1)
             ELSE <<m[1].group>> \o FindFrom(pattern, s, m[1].end)

finditer(pattern, s) == FindFrom(pattern, s, 1)


(***************************************************************************)
(* Dictionaries whose key order matters (dict, defaultdict(list)) are      *)
(* sequences of [key, value] in insertion order.                           *)
(***************************************************************************)
DictKeys(d) == [i \in 1..Len(d) |-> d[i].key]
DictHas(d, k) == \E i \in 1..Len(d) : d[i].key = k
DictLookup(d, k) == d[CHOOSE i \in 1..Len(d) : d[i].key = k].value
DictSet(d, k, v) ==
    IF DictHas(d, k)
    THEN [i \in 1..Len(d) |-> IF d[i].key = k THEN [key |-> k, value |-> v] ELSE d[i]]
    ELSE Append(d, [key |-> k, value |-> v])
\* d[k].append(item) on a defaultdict(list)
DictAppendTo(d, k, item) ==
    DictSet(d, k, (IF DictHas(d, k) THEN DictLookup(d, k) ELSE <<>>) \o <<item>>)

\* self.categories[category].append(item)
AppendCategory(self, category, item) ==
    [self EXCEPT !.categories[category] = Append(@, item)]

\* str.strip()
strip(s) ==
    LET keep == { i \in 1..Len(s) : ~IsSpace(Ch(s, i)) }
    IN  IF keep = {} THEN ""
        ELSE SubSeq(s, CHOOSE i \in keep : \A j \in keep : i <= j,
                       CHOOSE i \in keep : \A j \in keep : j <= i)

\* s.split(sep)[0]
BeforeFirst(s, sep) ==
    LET hits == { i \in 1..Len(s) : LitAt(s, i, sep) }
    IN  IF hits = {} THEN s
        ELSE SubSeq(s, 1, (CHOOSE i \in hits : \A j \in hits : i <= j) - 1)

\* iterating a text file: its lines, each with its line end
RECURSIVE LinesOf(_)
LinesOf(s) ==
    IF s = "" THEN <<>>
    ELSE LET ends == { i \in 1..Len(s) : Ch(s, i) = "\n" }
         IN  IF ends = {} THEN <<s>>
             ELSE LET e == CHOOSE i \in ends : \A j \in ends : i <= j
                  IN  <<SubSeq(s, 1, e)>> \o LinesOf(SubSeq(s, e + 1, Len(s)))


(***************************************************************************)
(* FeatureCategorizer of sensai_feature_analysis.py.  An object is the     *)
(* record [features, categories]; a method is an operator returning        *)
(* [ret, self]: the value returned and the object after the call.          *)
(***************************************************************************)
CategoryLabels ==
    <<"installation", "configuration", "user_interface", "api_integration",
      "data_processing", "authentication", "utilities", "error_handling",
      "platform_detection", "dependency_management", "voice_processing",
      "translation", "cryptography">>

\* mutant: a category table without the cryptography entry
NewFeatureCategorizer_NoCryptography ==
    [features |-> <<>>,
     categories |-> [c \in { CategoryLabels[i] : i \in DOMAIN CategoryLabels }
                            \ {"cryptography"} |-> <<>>]]

\* FeatureCategorizer.__init__
NewFeatureCategorizer ==
    [features |-> <<>>,
     categories |-> [c \in { CategoryLabels[i] : i \in DOMAIN CategoryLabels } |-> <<>>]]

\* the keyword list of each `if any(keyword in name_lower ...)` test
Keywords(label) ==
    CASE label = "installation" -> <<"install", "setup", "package", "dependencies">>
      [] label = "platform_detection" ->
            <<"detect", "os", "platform", "termux", "linux", "android">>
      [] label = "configuration" -> <<"config", "setting", "mode", "option">>
      [] label = "user_interface" ->
            <<"ui", "interface", "display", "show", "print", "prompt">>
      [] label = "api_integration" -> <<"api", "request", "http", "client", "fetch">>
      [] label = "voice_processing" ->
            <<"voice", "tts", "audio", "sound", "alsa", "speak">>
      [] label = "translation" -> <<"translate", "translation", "language">>
      [] label = "cryptography" -> <<"crypto", "encrypt", "decrypt", "hash", "secure">>
      [] label = "data_processing" ->
            <<"process", "parse", "transform", "convert", "generate">>
      [] label = "error_handling" -> <<"error", "exception", "try", "catch", "handle">>
      [] label = "utilities" -> <<"util", "helper", "common", "shared", "base">>

\* any(keyword in name_lower for keyword in keywords)
AnyKeyword(label, name_lower) ==
    \E i \in 1..Len(Keywords(label)) : Contains(Keywords(label)[i], name_lower)

\* mutant: the configuration test moved in front of the installation test
CategoryOf_ConfigurationFirst(name_lower) ==
    IF AnyKeyword("configuration", name_lower) THEN "configuration"
    ELSE IF AnyKeyword("installation", name_lower) THEN "installation"
    ELSE IF AnyKeyword("platform_detection", name_lower) THEN "platform_detection"
    ELSE IF AnyKeyword("user_interface", name_lower) THEN "user_interface"
    ELSE IF AnyKeyword("api_integration", name_lower) THEN "api_integration"
    ELSE IF AnyKeyword("voice_processing", name_lower) THEN "voice_processing"
    ELSE IF AnyKeyword("translation", name_lower) THEN "translation"
    ELSE IF AnyKeyword("cryptography", name_lower) THEN "cryptography"
    ELSE IF AnyKeyword("data_processing", name_lower) THEN "data_processing"
    ELSE IF AnyKeyword("error_handling", name_lower) THEN "error_handling"
    ELSE "utilities"

\* mutant: the default is a label of its own
CategoryOf_OtherDefault(name_lower) ==
    IF AnyKeyword("installation", name_lower) THEN "installation"
    ELSE IF AnyKeyword("platform_detection", name_lower) THEN "platform_detection"
    ELSE IF AnyKeyword("configuration", name_lower) THEN "configuration"
    ELSE IF AnyKeyword("user_interface", name_lower) THEN "user_interface"
    ELSE IF AnyKeyword("api_integration", name_lower) THEN "api_integration"
    ELSE IF AnyKeyword("voice_processing", name_lower) THEN "voice_processing"
    ELSE IF AnyKeyword("translation", name_lower) THEN "translation"
    ELSE IF AnyKeyword("cryptography", name_lower) THEN "cryptography"
    ELSE IF AnyKeyword("data_processing", name_lower) THEN "data_processing"
    ELSE IF AnyKeyword("error_handling", name_lower) THEN "error_handling"
    ELSE IF AnyKeyword("utilities", name_lower) THEN "utilities"
    ELSE "authentication"

\* the chain of tests of categorize_feature, in source order
CategoryOf(name_lower) ==
    IF AnyKeyword("installation", name_lower) THEN "installation"
    ELSE IF AnyKeyword("platform_detection", name_lower) THEN "platform_detection"
    ELSE IF AnyKeyword("configuration", name_lower) THEN "configuration"
    ELSE IF AnyKeyword("user_interface", name_lower) THEN "user_interface"
    ELSE IF AnyKeyword("api_integration", name_lower) THEN "api_integration"
    ELSE IF AnyKeyword("voice_processing", name_lower) THEN "voice_processing"
    ELSE IF AnyKeyword("translation", name_lower) THEN "translation"
    ELSE IF AnyKeyword("cryptography", name_lower) THEN "cryptography"
    ELSE IF AnyKeyword("data_processing", name_lower) THEN "data_processing"
    ELSE IF AnyKeyword("error_handling", name_lower) THEN "error_handling"
    ELSE IF AnyKeyword("utilities", name_lower) THEN "utilities"
    ELSE "utilities"

\* mutant: the categorizer also files the name under its label
categorize_feature_Recording(self, feature_name, feature_type, context) ==
    [ret |-> CategoryOf(lower(feature_name)),
     self |-> AppendCategory(self, CategoryOf(lower(feature_name)),
                             [name |-> feature_name, type |-> feature_type])]

categorize_feature(self, feature_name, feature_type, context) ==
    [ret |-> CategoryOf(lower(feature_name)), self |-> self]

(***************************************************************************)
(* categorize_feature called on one name.                                  *)
(***************************************************************************)
FeatureNames ==
    { "", "main", "foo", "x", "Bar", "install_config", "SetupOptions", "run_setup",
      "detect_os", "process_data", "close", "Linux", "config_mode", "ModelSettings",
      "show_ui", "build", "print_banner", "prompt_user", "api_client", "fetch_data",
      "HttpRequest", "rapid", "speak_text", "edge-tts", "audio_alsa", "translate_text",
      "language", "encrypt", "hash_password", "secure_api", "parse_args", "generate",
      "handle_error", "retry", "catch_all", "helper", "BaseClass", "common_util",
      "CONFIG", "dependencies_install" }
FeatureTypes == {"function", "class", "variable"}
Contexts == { [file |-> "install.py"], [file |-> "kawai.py"] }

InitCategorize ==
    /\ input \in [feature_name : FeatureNames, feature_type : FeatureTypes,
                  context : Contexts]
    /\ pc = "call"
    /\ ret = ""
    /\ NoDriver

CallCategorizeFeature ==
    /\ pc = "call"
    /\ ret' = categorize_feature(NewFeatureCategorizer, input.feature_name,
                                 input.feature_type, input.context).ret
    /\ pc' = "returned"
    /\ UNCHANGED <<input, callVars>>

SpecCategorize == InitCategorize /\ [][CallCategorizeFeature]_vars

\* the order of the rules the claim states
ClaimedRuleOrder ==
    <<"installation", "platform_detection", "configuration", "user_interface",
      "api_integration", "voice_processing", "translation", "cryptography",
      "data_processing", "error_handling", "utilities">>

RuleMatches(i, name) == AnyKeyword(ClaimedRuleOrder[i], lower(name))

NonUtilityRules == { i \in 1..Len(ClaimedRuleOrder) : ClaimedRuleOrder[i] # "utilities" }

\* C6: a name containing no keyword of any rule gets "utilities"; "utilities" is
\* returned only when no earlier rule matches; every string, the empty one
\* included, gets a label.
C6_UtilitiesIsTheDefault ==
    Returned =>
        /\ (\A i \in 1..Len(ClaimedRuleOrder) : ~RuleMatches(i, input.feature_name))
              => ret = "utilities"
        /\ ret = "utilities"
              => \A i \in NonUtilityRules : ~RuleMatches(i, input.feature_name)
        /\ \E i \in 1..Len(CategoryLabels) : ret = CategoryLabels[i]

\* a name without any keyword, and the empty name, come back as utilities
C6_Witness ==
    /\ Returned
    /\ input.feature_name = ""
    /\ ret = "utilities"

(***************************************************************************)
(* FeatureCategorizer.analyze_python_file and its regex fallback.  Line    *)
(* numbers (node.lineno) are not modelled: the records carry no line.      *)
(***************************************************************************)
\* mutant: the note set on every result
EmptyFeatures_Noted(file_path) ==
    [file |-> file_path, functions |-> <<>>, classes |-> <<>>, imports |-> <<>>,
     variables |-> <<>>, features_by_category |-> <<>>,
     note |-> "Regex-based analysis (file may be obfuscated)"]

EmptyFeatures(file_path) ==
    [file |-> file_path, functions |-> <<>>, classes |-> <<>>, imports |-> <<>>,
     variables |-> <<>>, features_by_category |-> <<>>]

RegexNote == "Regex-based analysis (file may be obfuscated)"

\* the value of `LET x == e IN body`, written TheValue({ body : x \in {e} }) where
\* e is the result of a call that body uses more than once
TheValue(S) == CHOOSE v \in S : TRUE

\* mutant: the found name put into self.categories as well
RegexAdd_IntoCategorizer(acc, name, field, type, c) ==
    [ret |-> [acc.ret EXCEPT
                 ![field] = Append(@, [name |-> name, type |-> type]),
                 !.features_by_category =
                     DictAppendTo(@, c.ret, [name |-> name, type |-> type])],
     self |-> AppendCategory(c.self, c.ret, [name |-> name, type |-> type])]

\* one found name put into features[field] and into its category of the file
RegexAdd(acc, name, field, type, c) ==
    [ret |-> [acc.ret EXCEPT
                 ![field] = Append(@, [name |-> name, type |-> type]),
                 !.features_by_category =
                     DictAppendTo(@, c.ret, [name |-> name, type |-> type])],
     self |-> c.self]

RECURSIVE RegexCollect(_, _, _, _, _)
RegexCollect(acc, names, field, type, file_name) ==
    IF names = <<>> THEN acc
    ELSE TheValue({ RegexCollect(RegexAdd(acc, Head(names), field, type, c),
                                 Tail(names), field, type, file_name) :
                    c \in { categorize_feature(acc.self, Head(names), type,
                                               [file |-> file_name]) } })

_analyze_with_regex(self, file_path, content) ==
    TheValue({
        RegexCollect(
            RegexCollect(
                [ret |-> [file |-> file_path, functions |-> <<>>, classes |-> <<>>,
                          imports |-> [i \in 1..Len(modules) |->
                                         [module |-> modules[i], type |-> "import"]],
                          variables |-> <<>>, features_by_category |-> <<>>,
                          note |-> RegexNote],
                 self |-> self],
                finditer("func", content), "functions", "function",
                basename(file_path)),
            finditer("class", content), "classes", "class", basename(file_path)) :
        modules \in { finditer("import", content) } })

\* the first walk: the import records of one node
ImportRecords(node) ==
    CASE node.type = "Import" ->
            [i \in 1..Len(node.names) |->
                [module |-> node.names[i].name, alias |-> node.names[i].asname,
                 type |-> "import"]]
      [] node.type = "ImportFrom" ->
            LET module == IF node.module = <<>> THEN "" ELSE node.module[1]
            IN  [i \in 1..Len(node.names) |->
                    [module |-> IF module # "" THEN module \o "." \o node.names[i].name
                                ELSE node.names[i].name,
                     alias |-> node.names[i].asname, type |-> "import_from"]]
      [] OTHER -> <<>>

\* a variable of more than 3 characters, categorized as c
AddVariable(acc, id, c) ==
    [ret |-> [acc.ret EXCEPT
                 !.variables = Append(@, [name |-> id, type |-> "variable"]),
                 !.features_by_category =
                     IF c.ret # "utilities"
                     THEN DictAppendTo(@, c.ret, [name |-> id, type |-> "variable"])
                     ELSE @],
     self |-> c.self]

\* the targets of an assignment, one at a time
RECURSIVE VisitTargets(_, _, _)
VisitTargets(acc, targets, file_name) ==
    IF targets = <<>> THEN acc
    ELSE IF Head(targets).type # "Name" THEN VisitTargets(acc, Tail(targets), file_name)
    ELSE IF Len(Head(targets).id) > 3
    THEN TheValue({ VisitTargets(AddVariable(acc, Head(targets).id, c), Tail(targets),
                                 file_name) :
                    c \in { categorize_feature(acc.self, Head(targets).id, "variable",
                                               [file |-> file_name]) } })
    ELSE VisitTargets([ret |-> [acc.ret EXCEPT !.variables =
                                   Append(@, [name |-> Head(targets).id,
                                              type |-> "variable"])],
                       self |-> acc.self],
                      Tail(targets), file_name)

\* func_info of a FunctionDef
FuncInfo(node) ==
    [name |-> node.name,
     args |-> [i \in 1..Len(node.args.args) |-> node.args.args[i].arg],
     decorators |-> [i \in 1..Len(node.decorator_list) |->
                       UnparseExpr(node.decorator_list[i])],
     type |-> "function"]

\* the methods of a ClassDef: the FunctionDef statements of its body
MethodNames(node) ==
    LET methods == SelectSeq(node.body, LAMBDA n : n.type = "FunctionDef")
    IN  [i \in 1..Len(methods) |-> methods[i].name]

\* class_info of a ClassDef
ClassInfo(node) ==
    [name |-> node.name,
     bases |-> [i \in 1..Len(node.bases) |-> UnparseExpr(node.bases[i])],
     methods |-> MethodNames(node),
     type |-> "class"]

\* a function or class put into features[field], into its category of the file
\* and into self.categories, categorized as c
AddDefinition(acc, field, info, c) ==
    [ret |-> [acc.ret EXCEPT
                 ![field] = Append(@, info),
                 !.features_by_category =
                     DictAppendTo(@, c.ret, [name |-> info.name, type |-> info.type])],
     self |-> AppendCategory(c.self, c.ret, info)]

\* the body of the second walk for one node
VisitNode(acc, node, file_name) ==
    CASE node.type = "FunctionDef" ->
            TheValue({ AddDefinition(acc, "functions", FuncInfo(node), c) :
                       c \in { categorize_feature(acc.self, node.name, "function",
                                                  [file |-> file_name]) } })
      [] node.type = "ClassDef" ->
            TheValue({ AddDefinition(acc, "classes", ClassInfo(node), c) :
                       c \in { categorize_feature(acc.self, node.name, "class",
                                                  [file |-> file_name]) } })
      [] node.type = "Assign" -> VisitTargets(acc, node.targets, file_name)
      [] OTHER -> acc

RECURSIVE VisitNodes(_, _, _)
VisitNodes(acc, nodes, file_name) ==
    IF nodes = <<>> THEN acc
    ELSE TheValue({ VisitNodes(visited, Tail(nodes), file_name) :
                    visited \in { VisitNode(acc, Head(nodes), file_name) } })

\* analyze_python_file(file_path) with the file at that path in state f
analyze_python_file(self, file_path, f) ==
    IF OpenError(f) # <<>> THEN _analyze_with_regex(self, file_path, "")
    ELSE IF ~f.parse.ok THEN _analyze_with_regex(self, file_path, f.text)
    ELSE TheValue({
             VisitNodes([ret |-> [EmptyFeatures(file_path) EXCEPT
                                     !.imports = Flatten([i \in 1..Len(nodes) |->
                                                            ImportRecords(nodes[i])])],
                         self |-> self],
                        nodes, basename(file_path)) :
             nodes \in { walk(f.parse.tree) } })

(***************************************************************************)
(* analyze_python_file called once, on a new FeatureCategorizer, for a     *)
(* file in any state of the catalogue.                                     *)
(***************************************************************************)
InitPyFile ==
    /\ input \in FileStates
    /\ pc = "call"
    /\ ret = <<>>
    /\ driver = "analyze_python_file"
    /\ fs = <<>>
    /\ idx = 0
    /\ local = [categorizer |-> NewFeatureCategorizer]
    /\ out = <<>>

CallAnalyzePythonFile ==
    /\ driver = "analyze_python_file" /\ pc = "call"
    /\ \E a \in { analyze_python_file(local.categorizer, InstallPy, input) } :
          /\ ret' = a.ret
          /\ local' = [categorizer |-> a.self]
    /\ pc' = "returned"
    /\ UNCHANGED <<input, driver, fs, idx, out>>

SpecPyFile == InitPyFile /\ [][CallAnalyzePythonFile]_vars

\* the file was opened, read and parsed, so the AST walk produced the result
WalkedByAst == input.kind = "file" /\ input.parse.ok

\* C25: the result of analyze_python_file has a note field exactly when the
\* file could not be opened or parsed, that is when _analyze_with_regex made
\* it, and then the note is the regex note; a result of the AST walk has none.
C25_NoteMarksRegexResults ==
    (driver = "analyze_python_file" /\ Returned) =>
        /\ ("note" \in DOMAIN ret) <=> ~WalkedByAst
        /\ ("note" \in DOMAIN ret)
              => ret.note = "Regex-based analysis (file may be obfuscated)"

\* a file with a syntax error came back with the note and the function the
\* regex found
C25_Witness ==
    /\ driver = "analyze_python_file" /\ Returned
    /\ input.kind = "file" /\ ~input.parse.ok
    /\ "note" \in DOMAIN ret
    /\ ret.functions # <<>>

(***************************************************************************)
(* FeatureCategorizer.analyze_repository.  files maps a path to the state  *)
(* of the file there; exc is <<>> or the exception leaving the method.     *)
(***************************************************************************)
RepoPath == "/workspace/kawaiigpt"
RequirementsTxt == "/workspace/kawaiigpt/requirements.txt"
python_files == <<InstallPy, KawaiPy>>

\* Path.exists(): a file that cannot be opened still exists
Exists(f) == f.kind # "missing"

\* the exception a text-mode open()/read() without errors='ignore' raises
StrictReadError(f) ==
    CASE f.kind = "unreadable" -> <<"PermissionError">>
      [] f.kind = "undecodable" -> <<"UnicodeDecodeError">>
      [] OTHER -> <<>>

\* file_features = a.ret appended to results['files'] and counted
AddFile(acc, a) ==
    [ret |-> [acc.ret EXCEPT
                 !.files = Append(@, a.ret),
                 !.summary.total_functions = @ + Len(a.ret.functions),
                 !.summary.total_classes = @ + Len(a.ret.classes),
                 !.summary.total_imports = @ + Len(a.ret.imports)],
     self |-> a.self]

\* the loop over python_files
RECURSIVE AnalyzeFiles(_, _, _)
AnalyzeFiles(acc, paths, files) ==
    IF paths = <<>> THEN acc
    ELSE IF ~Exists(files[Head(paths)]) THEN AnalyzeFiles(acc, Tail(paths), files)
    ELSE TheValue({ AnalyzeFiles(AddFile(acc, a), Tail(paths), files) :
                    a \in { analyze_python_file(acc.self, Head(paths),
                                                files[Head(paths)]) } })

\* the loop over self.categories.items()
RECURSIVE AggregateCategories(_, _, _)
AggregateCategories(results, self, labels) ==
    IF labels = <<>> THEN results
    ELSE LET items == self.categories[Head(labels)]
             next == IF items # <<>>
                     THEN [results EXCEPT
                              !.summary.features_by_category =
                                  DictSet(@, Head(labels), Len(items)),
                              !.categories = DictSet(@, Head(labels), items)]
                     ELSE results
         IN  AggregateCategories(next, self, Tail(labels))

\* mutant: the translation rule tested before the voice rule
DependencyCategory_TranslationFirst(req) ==
    LET req_lower == BeforeFirst(BeforeFirst(BeforeFirst(lower(req), "=="), ">="), "<=")
    IN  IF Contains("translate", req_lower) THEN "translation"
        ELSE IF Contains("tts", req_lower) \/ Contains("audio", req_lower)
           \/ Contains("sound", req_lower) THEN "voice_processing"
        ELSE IF Contains("crypto", req_lower) \/ Contains("crypt", req_lower)
        THEN "cryptography"
        ELSE IF Contains("request", req_lower) \/ Contains("http", req_lower)
        THEN "api_integration"
        ELSE IF Contains("toolkit", req_lower) \/ Contains("ui", req_lower)
        THEN "user_interface"
        ELSE "utilities"

\* the category of one requirement line
DependencyCategory(req) ==
    LET req_lower == BeforeFirst(BeforeFirst(BeforeFirst(lower(req), "=="), ">="), "<=")
    IN  IF Contains("tts", req_lower) \/ Contains("audio", req_lower)
           \/ Contains("sound", req_lower) THEN "voice_processing"
        ELSE IF Contains("translate", req_lower) THEN "translation"
        ELSE IF Contains("crypto", req_lower) \/ Contains("crypt", req_lower)
        THEN "cryptography"
        ELSE IF Contains("request", req_lower) \/ Contains("http", req_lower)
        THEN "api_integration"
        ELSE IF Contains("toolkit", req_lower) \/ Contains("ui", req_lower)
        THEN "user_interface"
        ELSE "utilities"

RECURSIVE CategorizeDependencies(_, _)
CategorizeDependencies(dep_categories, requirements) ==
    IF requirements = <<>> THEN dep_categories
    ELSE CategorizeDependencies(
             DictAppendTo(dep_categories, DependencyCategory(Head(requirements)),
                          Head(requirements)),
             Tail(requirements))

\* the requirement lines kept: non-blank, not starting with '#', stripped
RequirementsOf(text) ==
    LET kept == SelectSeq(LinesOf(text),
                          LAMBDA line : strip(line) # "" /\ ~LitAt(line, 1, "#"))
    IN  [i \in 1..Len(kept) |-> strip(kept[i])]

\* the part of analyze_repository that reads requirements.txt
ReadRequirements(results, self, req_file) ==
    IF ~Exists(req_file)
    THEN [ret |-> results, self |-> self, exc |-> <<>>]
    ELSE IF StrictReadError(req_file) # <<>>
    THEN [ret |-> results, self |-> self, exc |-> StrictReadError(req_file)]
    ELSE TheValue({ [ret |-> results @@
                             [dependencies |-> requirements,
                              dependencies_by_category |->
                                  CategorizeDependencies(<<>>, requirements)],
                     self |-> self, exc |-> <<>>] :
                    requirements \in { RequirementsOf(req_file.text) } })

analyze_repository(self, repo_path, files) ==
    TheValue({
        ReadRequirements(AggregateCategories(analyzed.ret, analyzed.self, CategoryLabels),
                         analyzed.self, files[RequirementsTxt]) :
        analyzed \in { AnalyzeFiles(
                           [ret |-> [repository |-> repo_path, files |-> <<>>,
                                     summary |-> [total_functions |-> 0,
                                                  total_classes |-> 0,
                                                  total_imports |-> 0,
                                                  features_by_category |-> <<>>],
                                     categories |-> <<>>],
                            self |-> self],
                           python_files, files) } })

(***************************************************************************)
(* write_to_serena: the "Feature Categories" part of the Markdown memory   *)
(* file, as the list of its lines.                                         *)
(***************************************************************************)
UpperChar(c) ==
    IF \E i \in 1..Len(LowerCase) : SubSeq(LowerCase, i, i) = c
    THEN LET i == CHOOSE k \in 1..Len(LowerCase) : SubSeq(LowerCase, k, k) = c
         IN  SubSeq(UpperCase, i, i)
    ELSE c

IsLetter(c) == LowerChar(c) # c \/ UpperChar(c) # c

\* str.title(): a letter that follows no letter is upper-cased, any other
\* letter is lower-cased
title(s) ==
    Join([i \in 1..Len(s) |->
            IF i = 1 \/ ~IsLetter(Ch(s, i - 1)) THEN UpperChar(Ch(s, i))
            ELSE LowerChar(Ch(s, i))])

\* category.replace('_', ' ').title()
CategoryTitle(category) ==
    title(Join([i \in 1..Len(category) |->
                  IF Ch(category, i) = "_" THEN " " ELSE Ch(category, i)]))

\* sorted(entries, key=count, reverse=True) for entries [key, value, count]:
\* larger counts first, entries of equal count in their order of the list
SortedByCount(entries) ==
    LET before(i) == { j \in 1..Len(entries) :
                          \/ entries[j].count > entries[i].count
                          \/ entries[j].count = entries[i].count /\ j < i }
    IN  [k \in 1..Len(entries) |->
            entries[CHOOSE i \in 1..Len(entries) : Cardinality(before(i)) = k - 1]]

\* the line of one feature of a category
FeatureLine(feature) ==
    "- **" \o DictGet(feature, "name", "unknown") \o "** ("
    \o DictGet(feature, "type", "unknown") \o ")"
    \o (IF "line" \in DOMAIN feature THEN " - Line " \o ToString(feature.line) ELSE "")

\* mutant: the line about the features left out already at 10 features
FeatureLines_MoreAtTen(features) ==
    [i \in 1..(IF Len(features) < 10 THEN Len(features) ELSE 10) |->
        FeatureLine(features[i])]
    \o (IF Len(features) >= 10
        THEN <<"- ... and " \o ToString(Len(features) - 10) \o " more">>
        ELSE <<>>)

\* features[:10] and the line that tells how many are left out
FeatureLines(features) ==
    [i \in 1..(IF Len(features) < 10 THEN Len(features) ELSE 10) |->
        FeatureLine(features[i])]
    \o (IF Len(features) > 10
        THEN <<"- ... and " \o ToString(Len(features) - 10) \o " more">>
        ELSE <<>>)

\* the body of the loop over the sorted categories for one category
CategorySection(category, count, results) ==
    IF count > 0
    THEN <<"### " \o CategoryTitle(category) \o " (" \o ToString(count) \o " features)",
           "">>
         \o (IF DictHas(results.categories, category)
             THEN FeatureLines(DictLookup(results.categories, category))
             ELSE <<>>)
         \o <<"">>
    ELSE <<>>

\* the loop over sorted(results['summary']['features_by_category'].items(), ...)
FeatureCategoriesMd(results) ==
    LET by_category == results.summary.features_by_category
        sorted == SortedByCount([i \in 1..Len(by_category) |->
                                   [key |-> by_category[i].key,
                                    value |-> by_category[i].value,
                                    count |-> by_category[i].value]])
    IN  Flatten([i \in 1..Len(sorted) |->
                   CategorySection(sorted[i].key, sorted[i].count, results)])

(***************************************************************************)
(* The scripts.  Init picks the script that runs and the state of the      *)
(* target project's files it reads; every other file is absent.            *)
(***************************************************************************)
ReadmeMd == "/workspace/kawaiigpt/README.md"
KnowledgeJson == "/workspace/kawaiigpt/knowledge_extraction.json"
SensaiJson == "/workspace/kawaiigpt/sensai_feature_analysis.json"
SerenaJson == "/workspace/kawaiigpt/serena_comprehensive_analysis.json"
Paths == {InstallPy, KawaiPy, RequirementsTxt, ReadmeMd, KnowledgeJson, SensaiJson,
          SerenaJson}
Undecodable == [kind |-> "undecodable"]
TextFile(text) == [kind |-> "file", text |-> text]

FooTree ==
    Module(<<Import(<<Alias("os", <<>>)>>),
             FunctionDef("foo", Arguments(<<>>, <<Arg("a"), Arg("b")>>, <<>>, <<>>, <<>>),
                         <<Pass>>, <<>>)>>)
BarTree ==
    Module(<<ImportFrom(<<"pkg">>, <<Alias("x", <<>>)>>, 0),
             ClassDef("Bar", <<Name("Base"), Attribute(Name("abc"), "ABC")>>,
                      <<AsyncFunctionDef("run", Arguments(<<>>, <<Arg("self")>>, <<>>, <<>>, <<>>),
                                         <<Pass>>, <<>>)>>),
             Assign(<<Name("config_path")>>, Call(Name("install_all"), <<>>))>>)

PyStates ==
    { Missing, Unreadable,
      Parsed(SourceOf(FooTree), FooTree), Parsed(SourceOf(BarTree), BarTree),
      Parsed("", Module(<<>>)),
      Unparsable("import os\ndef install(:\n    pass\n", "SyntaxError"),
      Unparsable("((\n", "SyntaxError") }

RequirementsStates ==
    { Missing, Unreadable, Undecodable,
      TextFile("edge-tts==1.2.3\n# pinned\nrequests>=2.0\n\n"),
      TextFile("pycryptodome\n prompt_toolkit<=3.0 \n") }

NoFiles == [p \in Paths |-> Missing]

(***************************************************************************)
(* The script extract_knowledge.py generates and runs                      *)
(* (extract_knowledge_internal.py): the top-level loop and the save.       *)
(***************************************************************************)
EmptyResults == [triples |-> <<>>, quads |-> <<>>, files_analyzed |-> <<>>]

\* the body of `for py_file in python_files` for the file in state f
InternalStep(results, py_file, f) ==
    IF ~Exists(f) THEN results
    ELSE LET file_results == analyze_file(py_file, f)
         IN  [results EXCEPT
                 !.triples = @ \o file_results.triples,
                 !.quads = @ \o file_results.quads,
                 !.files_analyzed =
                     Append(@, [file |-> py_file,
                                triple_count |-> Len(file_results.triples),
                                quad_count |-> Len(file_results.quads)])]

InitInternal ==
    /\ driver = "extract_knowledge_internal"
    /\ \E a, b \in PyStates : fs = [NoFiles EXCEPT ![InstallPy] = a, ![KawaiPy] = b]
    /\ pc = "loop"
    /\ idx = 1
    /\ local = [results |-> EmptyResults]
    /\ out = <<>>
    /\ input = <<>> /\ ret = <<>>

\* one iteration of `for py_file in python_files`
InternalLoop ==
    /\ driver = "extract_knowledge_internal" /\ pc = "loop"
    /\ idx <= Len(python_files)
    /\ local' = [local EXCEPT
                    !.results = InternalStep(@, python_files[idx], fs[python_files[idx]])]
    /\ idx' = idx + 1
    /\ UNCHANGED <<input, pc, ret, driver, fs, out>>

\* json.dump(results) into knowledge_extraction.json
InternalSave ==
    /\ driver = "extract_knowledge_internal" /\ pc = "loop"
    /\ idx > Len(python_files)
    /\ out' = DictSet(out, KnowledgeJson, local.results)
    /\ pc' = "done"
    /\ UNCHANGED <<input, ret, driver, fs, idx, local>>

(***************************************************************************)
(* sensai_feature_analysis.py: main().  Of the Markdown memory file that   *)
(* write_to_serena renders, out holds the "Feature Categories" part.       *)
(***************************************************************************)
SensaiMd == "/workspace/kawaiigpt/.serena/memories/sensai_feature_analysis.md"

InitSensai ==
    /\ driver = "sensai_feature_analysis"
    /\ \E a, b \in PyStates, r \in RequirementsStates :
          fs = [NoFiles EXCEPT ![InstallPy] = a, ![KawaiPy] = b, ![RequirementsTxt] = r]
    /\ pc = "start"
    /\ idx = 0
    /\ local = <<>>
    /\ out = <<>>
    /\ input = <<>> /\ ret = <<>>

\* categorizer = FeatureCategorizer(); results = categorizer.analyze_repository(...)
SensaiAnalyze ==
    /\ driver = "sensai_feature_analysis" /\ pc = "start"
    /\ \E a \in { analyze_repository(NewFeatureCategorizer, RepoPath, fs) } :
           IF a.exc # <<>>
           THEN /\ local' = [categorizer |-> a.self, exc |-> a.exc[1]]
                /\ pc' = "crashed"
           ELSE /\ local' = [categorizer |-> a.self, results |-> a.ret]
                /\ pc' = "write"
    /\ UNCHANGED <<input, ret, driver, fs, idx, out>>

\* write_to_serena(results, repo_path)
SensaiWrite ==
    /\ driver = "sensai_feature_analysis" /\ pc = "write"
    /\ out' = DictSet(DictSet(out, SensaiMd,
                              [lines |-> FeatureCategoriesMd(local.results)]),
                      SensaiJson, local.results)
    /\ pc' = "done"
    /\ UNCHANGED <<input, ret, driver, fs, idx, local>>

\* the files of the repository that the AST walk handles
AstWalked(path) == fs[path].kind = "file" /\ fs[path].parse.ok

\* the function and class definitions the walk of these files meets (an
\* async def is no ast.FunctionDef)
WalkedDefinitions ==
    Flatten([i \in 1..Len(python_files) |->
        IF AstWalked(python_files[i])
        THEN SelectSeq(walk(fs[python_files[i]].parse.tree),
                       LAMBDA n : n.type \in {"FunctionDef", "ClassDef"})
        ELSE <<>>])

\* all the items of a category map, and how many there are per file record
AllItems(categories) == Flatten([i \in 1..Len(categories) |-> categories[i].value])

ItemTypeOf(n) == IF n.type = "FunctionDef" THEN "function" ELSE "class"

SensaiAnalyzed == driver = "sensai_feature_analysis" /\ "results" \in DOMAIN local

\* C28: after analyze_repository on a new categorizer, the symbols of a
\* regex-derived file record are counted in the totals of the summary and sit
\* in the features_by_category of their file, while results['categories']
\* holds the functions and classes of the AST-walked files and nothing else
\* (no regex symbol, no variable); summary.features_by_category gives the
\* length of each category present, and no category present is empty.
C28_CategoriesHoldAstDefinitionsOnly ==
    SensaiAnalyzed =>
        \E results \in { local.results } :
            /\ results.summary.total_functions
                  = SeqSum([i \in 1..Len(results.files) |-> Len(results.files[i].functions)])
            /\ results.summary.total_classes
                  = SeqSum([i \in 1..Len(results.files) |-> Len(results.files[i].classes)])
            /\ \A i \in 1..Len(results.files) :
                  "note" \in DOMAIN results.files[i]
                     => Len(AllItems(results.files[i].features_by_category))
                           = Len(results.files[i].functions) + Len(results.files[i].classes)
            /\ Len(AllItems(results.categories)) = Len(WalkedDefinitions)
            /\ \A k \in 1..Len(WalkedDefinitions) :
                  \E c \in 1..Len(results.categories) :
                      \E j \in 1..Len(results.categories[c].value) :
                          /\ results.categories[c].value[j].name = WalkedDefinitions[k].name
                          /\ results.categories[c].value[j].type
                                = ItemTypeOf(WalkedDefinitions[k])
            /\ DictKeys(results.summary.features_by_category) = DictKeys(results.categories)
            /\ \A c \in 1..Len(results.categories) :
                  /\ results.categories[c].value # <<>>
                  /\ results.summary.features_by_category[c].value
                        = Len(results.categories[c].value)

\* install.py has a syntax error and its regex record holds a function;
\* kawai.py is walked and has a class and a categorized variable: the
\* categories hold the class alone
C28_Witness ==
    /\ SensaiAnalyzed
    /\ ~AstWalked(InstallPy) /\ AstWalked(KawaiPy)
    /\ Len(local.results.files) = 2
    /\ local.results.files[1].functions # <<>>
    /\ local.results.files[2].variables # <<>>
    /\ local.results.summary.total_functions = 1
    /\ Len(AllItems(local.results.categories)) = 1
    /\ AllItems(local.results.categories)[1].type = "class"

(***************************************************************************)
(* serena_analysis.py: analyze_with_serena_semantics().                    *)
(* knowledge_extraction.json is absent, cut short by a crash of its writer *)
(* ([kind |-> "corrupt"]) or holds what the generated script dumped;       *)
(* json.load gives back the dumped lists and dicts of strings unchanged.   *)
(***************************************************************************)
Corrupt == [kind |-> "corrupt"]
JsonFile(value) == [kind |-> "json", value |-> value]

\* what a run of the generated script leaves in knowledge_extraction.json
InternalRun(a, b) ==
    InternalStep(InternalStep(EmptyResults, InstallPy, a), KawaiPy, b)

KnowledgeStates ==
    { Missing, Corrupt,
      JsonFile(InternalRun(Missing, Missing)),
      JsonFile(InternalRun(Parsed(SourceOf(FooTree), FooTree), Missing)),
      JsonFile(InternalRun(Parsed(SourceOf(BarTree), BarTree),
                           Parsed(SourceOf(FooTree), FooTree))) }

ReadmeStates ==
    { Missing, Undecodable,
      TextFile("# KawaiiGPT\nRuns on Termux and Linux.\n"),
      TextFile("Installation: python install.py\nVoice needs ALSA.\n") }

\* the exception json.load(open(path)) raises, <<>> when it loads
JsonLoadError(f) ==
    CASE f.kind = "unreadable" -> <<"PermissionError">>
      [] f.kind = "corrupt" -> <<"JSONDecodeError">>
      [] OTHER -> <<>>

\* s.count(sub) for a one-character sub
CountChar(s, c) == Cardinality({ i \in 1..Len(s) : Ch(s, i) = c })

DependsOn(file_name, module, file_path) ==
    [subject |-> file_name, predicate |-> "depends_on", object |-> module,
     context |-> file_path, graph |-> "dependency_graph"]

\* a file that imports the same module twice
TwiceTree == Module(<<Import(<<Alias("os", <<>>)>>), Import(<<Alias("os", <<>>)>>)>>)

InitSerena ==
    /\ driver = "serena_analysis"
    /\ \E a, b \in PyStates \cup { Parsed(SourceOf(TwiceTree), TwiceTree) },
          k \in KnowledgeStates, r \in ReadmeStates :
          fs = [NoFiles EXCEPT ![InstallPy] = a, ![KawaiPy] = b,
                               ![KnowledgeJson] = k, ![ReadmeMd] = r]
    /\ pc = "load"
    /\ idx = 1
    /\ local = <<>>
    /\ out = <<>>
    /\ input = <<>> /\ ret = <<>>

\* enhanced_triples and enhanced_quads start as copies of the loaded lists
LoadedFacts(existing_results) ==
    [enhanced_triples |-> DictGet(existing_results, "triples", <<>>),
     enhanced_quads |-> DictGet(existing_results, "quads", <<>>),
     files_info |-> <<>>]

\* reading knowledge_extraction.json, or the empty default when it is absent
SerenaLoad ==
    /\ driver = "serena_analysis" /\ pc = "load"
    /\ LET knowledge_file == fs[KnowledgeJson]
           existing_results ==
               IF Exists(knowledge_file) THEN knowledge_file.value
               ELSE [triples |-> <<>>, quads |-> <<>>]
       IN  IF Exists(knowledge_file) /\ JsonLoadError(knowledge_file) # <<>>
           THEN /\ pc' = "crashed"
                /\ local' = [exc |-> JsonLoadError(knowledge_file)[1]]
           ELSE /\ pc' = "files"
                /\ local' = LoadedFacts(existing_results)
    /\ UNCHANGED <<input, ret, driver, fs, idx, out>>

\* mutant: the loop body without its try/except, so that the exception of open()
\* leaves the function
SerenaFile_NoTry ==
    /\ driver = "serena_analysis" /\ pc = "files"
    /\ idx <= Len(python_files)
    /\ LET py_file == python_files[idx]
           f == fs[py_file]
           imports == finditer("import", f.text)
           facts == [i \in 1..Len(imports) |->
                        DependsOn(basename(py_file), imports[i], py_file)]
       IN  IF ~Exists(f) THEN local' = local /\ pc' = pc
           ELSE IF OpenError(f) # <<>>
           THEN local' = local @@ [exc |-> OpenError(f)[1]] /\ pc' = "crashed"
           ELSE /\ local' =
                     [local EXCEPT
                         !.files_info =
                             DictSet(@, basename(py_file),
                                     [content |-> f.text, size |-> Len(f.text),
                                      lines |-> CountChar(f.text, "\n") + 1]),
                         !.enhanced_triples = @ \o facts,
                         !.enhanced_quads = @ \o facts]
                /\ pc' = pc
    /\ idx' = idx + 1
    /\ UNCHANGED <<input, ret, driver, fs, out>>

\* one iteration of the loop over install.py and kawai.py
SerenaFile ==
    /\ driver = "serena_analysis" /\ pc = "files"
    /\ idx <= Len(python_files)
    /\ LET py_file == python_files[idx]
           f == fs[py_file]
           imports == finditer("import", f.text)
           facts == [i \in 1..Len(imports) |->
                        DependsOn(basename(py_file), imports[i], py_file)]
       IN  local' =
              IF Exists(f) /\ OpenError(f) = <<>>
              THEN [local EXCEPT
                      !.files_info =
                          DictSet(@, basename(py_file),
                                  [content |-> f.text, size |-> Len(f.text),
                                   lines |-> CountChar(f.text, "\n") + 1]),
                      !.enhanced_triples = @ \o facts,
                      !.enhanced_quads = @ \o facts]
              ELSE local
    /\ idx' = idx + 1
    /\ UNCHANGED <<input, pc, ret, driver, fs, out>>

PartOf(file_name) ==
    [subject |-> file_name, predicate |-> "part_of", object |-> "kawaiigpt",
     context |-> "project_structure", graph |-> "project_structure"]

\* mutant: enhanced_triples[-1:]
LastTwo_LastOne(q) == SubSeq(q, IF Len(q) > 1 THEN Len(q) ELSE 1, Len(q))

\* enhanced_triples[-2:]
LastTwo(q) == SubSeq(q, IF Len(q) > 2 THEN Len(q) - 1 ELSE 1, Len(q))

\* s without the later copies of its elements
RECURSIVE Unique(_)
Unique(s) ==
    IF s = <<>> THEN <<>>
    ELSE IF \E i \in 1..(Len(s) - 1) : s[i] = s[Len(s)]
    THEN Unique(SubSeq(s, 1, Len(s) - 1))
    ELSE Unique(SubSeq(s, 1, Len(s) - 1)) \o <<s[Len(s)]>>

\* mutant: equal facts merged before the part_of facts are added
CrossFile_Unique(l) ==
    LET triples == Unique(l.enhanced_triples)
                       \o <<PartOf("install.py"), PartOf("kawai.py")>>
        last == LastTwo(triples)
    IN  [l EXCEPT
            !.enhanced_triples = triples,
            !.enhanced_quads = Unique(@) \o last]

\* the two part_of facts and their quads
CrossFile(l) ==
    LET triples == l.enhanced_triples \o <<PartOf("install.py"), PartOf("kawai.py")>>
        last == LastTwo(triples)
    IN  [l EXCEPT
            !.enhanced_triples = triples,
            !.enhanced_quads =
                @ \o [i \in 1..Len(last) |->
                        [subject |-> last[i].subject,
                         predicate |-> last[i].predicate,
                         object |-> last[i].object,
                         graph |-> last[i].graph,
                         context |-> last[i].context]]]

SerenaCrossFile ==
    /\ driver = "serena_analysis" /\ pc = "files"
    /\ idx > Len(python_files)
    /\ local' = CrossFile(local)
    /\ pc' = "readme"
    /\ UNCHANGED <<input, ret, driver, fs, idx, out>>

concepts == <<"KawaiiGPT", "Python", "Termux", "Linux", "installation", "voice", "ALSA">>

RelatedTo(concept) ==
    [subject |-> "kawaiigpt", predicate |-> "related_to", object |-> concept,
     context |-> "README.md", graph |-> "concept_graph"]

\* the concepts found in README.md, when there is one
SerenaReadme ==
    /\ driver = "serena_analysis" /\ pc = "readme"
    /\ LET readme == fs[ReadmeMd]
           found == SelectSeq(concepts,
                              LAMBDA c : Contains(lower(c), lower(readme.text)))
           facts == [i \in 1..Len(found) |-> RelatedTo(found[i])]
       IN  IF ~Exists(readme) THEN pc' = "save" /\ UNCHANGED local
           ELSE IF StrictReadError(readme) # <<>>
           THEN /\ pc' = "crashed"
                /\ local' = local @@ [exc |-> StrictReadError(readme)[1]]
           ELSE /\ pc' = "save"
                /\ local' = [local EXCEPT !.enhanced_triples = @ \o facts,
                                          !.enhanced_quads = @ \o facts]
    /\ UNCHANGED <<input, ret, driver, fs, idx, out>>

\* mutant: the loop run over the list from its end
RECURSIVE GroupByGraph_FromTheEnd(_, _)
GroupByGraph_FromTheEnd(groups, facts) ==
    IF facts = <<>> THEN groups
    ELSE GroupByGraph_FromTheEnd(
             DictAppendTo(groups, DictGet(facts[Len(facts)], "graph", "default"),
                          facts[Len(facts)]),
             SubSeq(facts, 1, Len(facts) - 1))

\* defaultdict(list) filled by fact.get('graph', 'default')
RECURSIVE GroupByGraph(_, _)
GroupByGraph(groups, facts) ==
    IF facts = <<>> THEN groups
    ELSE GroupByGraph(DictAppendTo(groups, DictGet(Head(facts), "graph", "default"),
                                   Head(facts)),
                      Tail(facts))

\* grouping and the results dict
ComprehensiveResults(l) ==
    LET triples_by_graph == GroupByGraph(<<>>, l.enhanced_triples)
        quads_by_graph == GroupByGraph(<<>>, l.enhanced_quads)
    IN  [summary |-> [total_triples |-> Len(l.enhanced_triples),
                      total_quads |-> Len(l.enhanced_quads),
                      files_analyzed |-> DictKeys(l.files_info),
                      graphs |-> DictKeys(triples_by_graph)],
         triples |-> l.enhanced_triples,
         quads |-> l.enhanced_quads,
         triples_by_graph |-> triples_by_graph,
         quads_by_graph |-> quads_by_graph,
         files_info |-> l.files_info]

\* json.dump(results) into the output file
SerenaSave ==
    /\ driver = "serena_analysis" /\ pc = "save"
    /\ out' = DictSet(out, SerenaJson, ComprehensiveResults(local))
    /\ pc' = "done"
    /\ UNCHANGED <<input, ret, driver, fs, idx, local>>

(***************************************************************************)
(* analyze_repo.py: main().  The agent is external: each tool call either  *)
(* returns a text or raises, chosen when the call is made.                 *)
(***************************************************************************)
AnalysisOutputJson == "/workspace/kawaiigpt/.serena/analysis_output.json"
Ok(text) == [ok |-> TRUE, text |-> text]
Raises == [ok |-> FALSE, text |-> ""]

\* s[:n]
Prefix(s, n) == SubSeq(s, 1, IF Len(s) < n THEN Len(s) ELSE n)

\* s.replace(' ', '_')
ReplaceSpaces(s) ==
    Join([i \in 1..Len(s) |-> IF Ch(s, i) = " " THEN "_" ELSE Ch(s, i)])

ListDirOutcomes == { Ok("install.py\nkawai.py\nREADME.md"), Raises }
ReadFileOutcomes ==
    { Ok("# KawaiiGPT\nrun python install.py\n"), Ok("File not found"),
      Ok("Error: cannot read file"), Ok(""), Raises }
SearchOutcomes == { Ok("install.py:1:import os"), Ok("No matches found"), Ok(""), Raises }
WriteOutcomes == { Ok("written"), Raises }

key_files == <<"README.md", "install.py", "requirements.txt">>
patterns == <<"import", "def ", "class ", "API", "GPT", "openai">>

InitRepo ==
    /\ driver = "analyze_repo"
    /\ fs = NoFiles
    /\ pc = "init"
    /\ idx = 1
    /\ local = <<>>
    /\ out = <<>>
    /\ input = <<>> /\ ret = <<>>

\* SerenaAgent(project=...): on failure main prints the error and returns
RepoInitAgent ==
    /\ driver = "analyze_repo" /\ pc = "init"
    /\ \E agent_ok \in BOOLEAN :
          IF agent_ok THEN pc' = "structure" ELSE pc' = "returned"
    /\ UNCHANGED <<input, ret, driver, fs, idx, local, out>>

\* analyze_project_structure(agent, project_path)
RepoProjectStructure ==
    /\ driver = "analyze_repo" /\ pc = "structure"
    /\ \E dir_content \in ListDirOutcomes :
          LET analysis == [project_path |-> RepoPath, files |-> <<>>, triples |-> <<>>,
                           quads |-> <<>>]
          IN  local' =
                 [analysis |->
                    IF dir_content.ok
                    THEN [analysis EXCEPT
                             !.triples = Append(@, [subject |-> RepoPath,
                                                    predicate |-> "hasDirectoryStructure",
                                                    object |-> Prefix(dir_content.text, 1000)])]
                         @@ [directory_structure |-> dir_content.text]
                    ELSE analysis]
    /\ pc' = "read"
    /\ idx' = 1
    /\ UNCHANGED <<input, ret, driver, fs, out>>

\* mutant: the two words looked for in the content as it is
ReadAndAnalyze_CaseSensitive(analysis, filepath, content) ==
    IF content.ok /\ content.text # ""
       /\ ~Contains("not found", content.text)
       /\ ~Contains("error", content.text)
    THEN [analysis EXCEPT
            !.files = Append(@, [path |-> filepath,
                                 content_preview |-> Prefix(content.text, 500)]),
            !.triples = Append(@, [subject |-> analysis.project_path,
                                   predicate |-> "containsFile", object |-> filepath]),
            !.quads = Append(@, [subject |-> filepath, predicate |-> "hasContent",
                                 object |-> Prefix(content.text, 200),
                                 context |-> "kawaiigpt_project_analysis"])]
    ELSE analysis

\* the body of the loop of read_and_analyze_files for one tool outcome
ReadAndAnalyze(analysis, filepath, content) ==
    IF content.ok /\ content.text # ""
       /\ ~Contains("not found", lower(content.text))
       /\ ~Contains("error", lower(content.text))
    THEN [analysis EXCEPT
            !.files = Append(@, [path |-> filepath,
                                 content_preview |-> Prefix(content.text, 500)]),
            !.triples = Append(@, [subject |-> analysis.project_path,
                                   predicate |-> "containsFile", object |-> filepath]),
            !.quads = Append(@, [subject |-> filepath, predicate |-> "hasContent",
                                 object |-> Prefix(content.text, 200),
                                 context |-> "kawaiigpt_project_analysis"])]
    ELSE analysis

\* one iteration of the loop over key_files
RepoReadFile ==
    /\ driver = "analyze_repo" /\ pc = "read"
    /\ idx <= Len(key_files)
    /\ \E content \in ReadFileOutcomes :
          local' = [local EXCEPT !.analysis = ReadAndAnalyze(@, key_files[idx], content)]
    /\ idx' = idx + 1
    /\ UNCHANGED <<input, pc, ret, driver, fs, out>>

RepoReadDone ==
    /\ driver = "analyze_repo" /\ pc = "read"
    /\ idx > Len(key_files)
    /\ pc' = "search"
    /\ idx' = 1
    /\ UNCHANGED <<input, ret, driver, fs, local, out>>

\* the body of the loop of search_for_patterns for one tool outcome
SearchForPattern(analysis, pattern, result) ==
    IF result.ok /\ result.text # "" /\ ~Contains("no matches", lower(result.text))
    THEN [analysis EXCEPT
            !.triples = Append(@, [subject |-> "kawaiigpt",
                                   predicate |-> "containsPattern_" \o ReplaceSpaces(pattern),
                                   object |-> Prefix(result.text, 300)])]
    ELSE analysis

\* one iteration of the loop over patterns
RepoSearch ==
    /\ driver = "analyze_repo" /\ pc = "search"
    /\ idx <= Len(patterns)
    /\ \E result \in SearchOutcomes :
          local' = [local EXCEPT !.analysis = SearchForPattern(@, patterns[idx], result)]
    /\ idx' = idx + 1
    /\ UNCHANGED <<input, pc, ret, driver, fs, out>>

\* save_memories: two write-memory calls, each in its own try
RepoSaveMemories ==
    /\ driver = "analyze_repo" /\ pc = "search"
    /\ idx > Len(patterns)
    /\ \E overview, graph \in WriteOutcomes :
          local' = local @@ [memories |->
                                (IF overview.ok THEN <<"project_overview.md">> ELSE <<>>)
                                \o (IF graph.ok THEN <<"knowledge_graph.md">> ELSE <<>>)]
    /\ pc' = "write"
    /\ UNCHANGED <<input, ret, driver, fs, idx, out>>

\* json.dump(analysis) into .serena/analysis_output.json; open() is not guarded
RepoWrite ==
    /\ driver = "analyze_repo" /\ pc = "write"
    /\ \E opened \in BOOLEAN :
          IF opened
          THEN out' = DictSet(out, AnalysisOutputJson, local.analysis) /\ pc' = "done"
          ELSE out' = out /\ pc' = "crashed"
    /\ UNCHANGED <<input, ret, driver, fs, idx, local>>

ContainsFileTriples(analysis) ==
    SelectSeq(analysis.triples, LAMBDA triple : triple.predicate = "containsFile")

\* text says error or not found, in any case
ReportsFailure(text) ==
    Contains("error", lower(text)) \/ Contains("not found", lower(text))

\* analysis holds filepath in files, in a containsFile triple and in a quad
RecordedLast(analysis, filepath) ==
    /\ analysis.files # <<>> /\ analysis.quads # <<>>
    /\ ContainsFileTriples(analysis) # <<>>
    /\ analysis.files[Len(analysis.files)].path = filepath
    /\ analysis.quads[Len(analysis.quads)].subject = filepath
    /\ ContainsFileTriples(analysis)[Len(ContainsFileTriples(analysis))].object
          = filepath

RepoAnalysing == driver = "analyze_repo" /\ "analysis" \in DOMAIN local

\* C30: during and after read_and_analyze_files the file records, the
\* containsFile triples and the hasContent quads are equally many and at most
\* 3 and name the same files; while the files are read, no record holds a
\* content that says error or not found; and each iteration adds the key file
\* to all three or to none.
C30_FileRecordsTriplesAndQuadsTogether ==
    /\ [](RepoAnalysing =>
            \E analysis \in { local.analysis } :
                /\ Len(analysis.files) = Len(analysis.quads)
                /\ Len(analysis.files) = Len(ContainsFileTriples(analysis))
                /\ Len(analysis.files) <= 3
                /\ \A i \in 1..Len(analysis.files) :
                      /\ pc = "read" => ~ReportsFailure(analysis.files[i].content_preview)
                      /\ analysis.quads[i].object
                            = Prefix(analysis.files[i].content_preview, 200)
                      /\ analysis.files[i].path = analysis.quads[i].subject
                      /\ analysis.files[i].path = ContainsFileTriples(analysis)[i].object)
    /\ [][(RepoAnalysing /\ pc = "read" /\ idx <= Len(key_files))
             => \/ /\ local'.analysis.files = local.analysis.files
                   /\ local'.analysis.quads = local.analysis.quads
                   /\ local'.analysis.triples = local.analysis.triples
                \/ /\ Len(local'.analysis.files) = Len(local.analysis.files) + 1
                   /\ Len(local'.analysis.quads) = Len(local.analysis.quads) + 1
                   /\ Len(local'.analysis.triples) = Len(local.analysis.triples) + 1
                   /\ RecordedLast(local'.analysis, key_files[idx])]_vars

\* README.md and requirements.txt were recorded and install.py, read in
\* between, was not
C30_Witness ==
    /\ RepoAnalysing /\ pc = "search"
    /\ Len(local.analysis.files) = 2
    /\ local.analysis.files[1].path = "README.md"
    /\ local.analysis.files[2].path = "requirements.txt"
    /\ Len(local.analysis.quads) = 2
    /\ Len(ContainsFileTriples(local.analysis)) = 2

(***************************************************************************)
(* analyze_kawaiigpt.py: the __main__ block and                            *)
(* analyze_repository_with_serena.  local.printed lists the error lines    *)
(* the script prints; pc = "exit1" is sys.exit(1).                         *)
(***************************************************************************)
SerenaAnalysisJson == "/workspace/kawaiigpt/serena_analysis.json"
ToolError == "tool call failed"

OnboardingOutcomes == { Ok("Onboarding instructions: explore the project"), Raises }
SymbolsOutcomes == { Ok("install_all, main"), Raises }
FindSymbolOutcomes == { Ok("def install_all"), Raises }

main_files == <<KawaiPy, InstallPy>>
symbol_patterns == <<"def ", "class ", "import ">>

InitKawaii ==
    /\ driver = "analyze_kawaiigpt"
    /\ \E project_exists \in BOOLEAN :
          /\ \E a, b \in { Missing, Parsed(SourceOf(FooTree), FooTree) } :
                fs = IF project_exists
                     THEN [NoFiles EXCEPT ![InstallPy] = a, ![KawaiPy] = b]
                     ELSE NoFiles
          /\ local = [project_exists |-> project_exists, printed |-> <<>>]
    /\ pc = "start"
    /\ idx = 1
    /\ out = <<>>
    /\ input = <<>> /\ ret = <<>>

\* except Exception as e: print, traceback.print_exc(), sys.exit(1)
KawaiiHandler(l) ==
    [l EXCEPT !.printed = Append(@, "Error during analysis: " \o ToolError)]

\* if not project_path.exists(): print, sys.exit(1)
KawaiiStart ==
    /\ driver = "analyze_kawaiigpt" /\ pc = "start"
    /\ IF local.project_exists
       THEN pc' = "init" /\ local' = local
       ELSE /\ pc' = "exit1"
            /\ local' = [local EXCEPT
                            !.printed = Append(@, "Error: Project path does not exist: "
                                                  \o RepoPath)]
    /\ UNCHANGED <<input, ret, driver, fs, idx, out>>

\* SerenaConfig, context, mode and SerenaAgent(...), none of them in a try
KawaiiInitAgent ==
    /\ driver = "analyze_kawaiigpt" /\ pc = "init"
    /\ \E agent_ok \in BOOLEAN :
          IF agent_ok
          THEN pc' = "onboarding" /\ local' = local
          ELSE pc' = "exit1" /\ local' = KawaiiHandler(local)
    /\ UNCHANGED <<input, ret, driver, fs, idx, out>>

\* onboarding_result = agent.get_tool(OnboardingTool).apply(), not in a try
KawaiiOnboarding ==
    /\ driver = "analyze_kawaiigpt" /\ pc = "onboarding"
    /\ \E onboarding_result \in OnboardingOutcomes :
          IF onboarding_result.ok
          THEN /\ pc' = "list_dir"
               /\ local' = local @@ [onboarding |-> onboarding_result.text]
          ELSE pc' = "exit1" /\ local' = KawaiiHandler(local)
    /\ UNCHANGED <<input, ret, driver, fs, idx, out>>

\* files_result = agent.get_tool(ListDirTool).apply(project_path, recursive=True),
\* not in a try
KawaiiListDir ==
    /\ driver = "analyze_kawaiigpt" /\ pc = "list_dir"
    /\ \E files_result \in ListDirOutcomes :
          IF files_result.ok
          THEN /\ pc' = "files"
               /\ local' = local @@ [all_triples |-> <<>>, all_quads |-> <<>>]
          ELSE pc' = "exit1" /\ local' = KawaiiHandler(local)
    /\ idx' = 1
    /\ UNCHANGED <<input, ret, driver, fs, out>>

\* the error lines of the loop over the patterns, each apply() in its own try
FindSymbolErrors(found) ==
    Flatten([i \in 1..Len(symbol_patterns) |->
                IF found[i].ok THEN <<>>
                ELSE <<"Error searching for '" \o symbol_patterns[i] \o "': " \o ToolError>>])

\* mutant: the symbols overview parsed into a fact of the file
AnalyzeMainFile_ParsesSymbols(l, file_path, symbols_result, find_tool_ok, found) ==
    [l EXCEPT
        !.printed =
            @ \o (IF symbols_result.ok THEN <<>>
                  ELSE <<"Error analyzing " \o basename(file_path) \o ": " \o ToolError>>)
              \o (IF find_tool_ok THEN FindSymbolErrors(found)
                  ELSE <<"Error in symbol search: " \o ToolError>>),
        !.all_triples =
            @ \o (IF symbols_result.ok
                  THEN <<Triple(symbols_result.text, "defined_in", file_path, file_path,
                                "code_structure")>>
                  ELSE <<>>)]

\* the two try blocks of the loop body for a file that exists: what they
\* print, and all_triples and all_quads as they leave them
AnalyzeMainFile(l, file_path, symbols_result, find_tool_ok, found) ==
    [l EXCEPT
        !.printed =
            @ \o (IF symbols_result.ok THEN <<>>
                  ELSE <<"Error analyzing " \o basename(file_path) \o ": " \o ToolError>>)
              \o (IF find_tool_ok THEN FindSymbolErrors(found)
                  ELSE <<"Error in symbol search: " \o ToolError>>)]

\* one iteration of `for filename in python_files`
KawaiiFile ==
    /\ driver = "analyze_kawaiigpt" /\ pc = "files"
    /\ idx <= Len(main_files)
    /\ IF ~Exists(fs[main_files[idx]])
       THEN local' = local
       ELSE \E symbols_result \in SymbolsOutcomes, find_tool_ok \in BOOLEAN,
               found \in [1..Len(symbol_patterns) -> FindSymbolOutcomes] :
               local' = AnalyzeMainFile(local, main_files[idx], symbols_result,
                                        find_tool_ok, found)
    /\ idx' = idx + 1
    /\ UNCHANGED <<input, pc, ret, driver, fs, out>>

\* json.dump(results) into serena_analysis.json; a failing open() reaches the
\* handler of the __main__ block
KawaiiWrite ==
    /\ driver = "analyze_kawaiigpt" /\ pc = "files"
    /\ idx > Len(main_files)
    /\ \E opened \in BOOLEAN :
          IF opened
          THEN /\ out' = DictSet(out, SerenaAnalysisJson,
                                 [triples |-> local.all_triples,
                                  quads |-> local.all_quads,
                                  onboarding |-> local.onboarding])
               /\ pc' = "done"
               /\ local' = local
          ELSE out' = out /\ pc' = "exit1" /\ local' = KawaiiHandler(local)
    /\ UNCHANGED <<input, ret, driver, fs, idx>>

EnhancedMd == "/workspace/kawaiigpt/.serena/memories/enhanced_sensai_feature_analysis.md"
EnhancedJson == "/workspace/kawaiigpt/enhanced_sensai_analysis.json"

\* any(keyword in module for keyword in keywords)
AnyIn(keywords, module) == \E i \in 1..Len(keywords) : Contains(keywords[i], module)

\* the three independent tests of infer_features_from_imports for one import
InferFromImport(inferred_features, imp) ==
    LET module == lower(DictGet(imp, "module", ""))
        item(inference) == [type |-> "import", module |-> imp.module,
                            inference |-> inference]
        a == IF AnyIn(<<"crypto", "hashlib", "base64", "zlib">>, module)
             THEN DictAppendTo(inferred_features, "cryptography",
                               item("Code obfuscation/encryption capabilities"))
             ELSE inferred_features
        b == IF AnyIn(<<"os", "sys", "warnings">>, module)
             THEN DictAppendTo(a, "system_integration", item("System-level operations"))
             ELSE a
    IN  IF Contains("types", module) \/ Contains("builtins", module)
        THEN DictAppendTo(b, "type_system",
                          item("Dynamic type manipulation (common in obfuscated code)"))
        ELSE b

RECURSIVE InferFromImports(_, _)
InferFromImports(inferred_features, imports) ==
    IF imports = <<>> THEN inferred_features
    ELSE InferFromImports(InferFromImport(inferred_features, Head(imports)),
                          Tail(imports))

infer_features_from_imports(imports) == InferFromImports(<<>>, imports)

\* the if/elif chain over dep_lower: the category and the capability text
DependencyFeature(dep) ==
    LET dep_lower == BeforeFirst(lower(dep), "==")
        in(kw) == Contains(kw, dep_lower)
        to(category, capability) == [category |-> category, capability |-> capability]
    IN  IF in("tts") \/ in("audio") \/ in("sound")
        THEN to("voice_processing", "Text-to-speech and audio playback")
        ELSE IF in("translate") THEN to("translation", "Multi-language translation")
        ELSE IF in("crypto")
        THEN to("cryptography", "Encryption and cryptographic operations")
        ELSE IF in("request")
        THEN to("api_integration", "HTTP requests and API communication")
        ELSE IF in("toolkit") \/ in("prompt")
        THEN to("user_interface", "Interactive command-line interface")
        ELSE IF in("useragent")
        THEN to("api_integration", "HTTP client spoofing/user agent rotation")
        ELSE IF in("colorama") THEN to("user_interface", "Colored terminal output")
        ELSE IF in("regex")
        THEN to("data_processing", "Pattern matching and text processing")
        ELSE IF in("pexpect")
        THEN to("system_integration", "Process automation and interaction")
        ELSE IF in("pydub") THEN to("data_processing", "Audio file manipulation")
        ELSE to("utilities", "General utility functionality")

\* the loop over existing.get('dependencies', [])
RECURSIVE DependencyFeatures(_, _)
DependencyFeatures(dep_features, deps) ==
    IF deps = <<>> THEN dep_features
    ELSE DependencyFeatures(
             DictAppendTo(dep_features, DependencyFeature(Head(deps)).category,
                          [dependency |-> Head(deps),
                           capability |-> DependencyFeature(Head(deps)).capability]),
             Tail(deps))

\* the literal dict: section, feature, category of the feature
comprehensive ==
    <<[key |-> "core_features",
       value |-> <<[key |-> "installation_management", value |-> "installation"],
                   [key |-> "platform_detection", value |-> "platform_detection"],
                   [key |-> "code_obfuscation", value |-> "cryptography"]>>],
      [key |-> "application_features",
       value |-> <<[key |-> "ai_chatbot", value |-> "user_interface"],
                   [key |-> "voice_interaction", value |-> "voice_processing"],
                   [key |-> "translation_service", value |-> "translation"],
                   [key |-> "api_communication", value |-> "api_integration"],
                   [key |-> "interactive_ui", value |-> "user_interface"],
                   [key |-> "data_processing", value |-> "data_processing"],
                   [key |-> "system_automation", value |-> "system_integration"]>>],
      [key |-> "security_features",
       value |-> <<[key |-> "code_protection", value |-> "cryptography"],
                   [key |-> "request_spoofing", value |-> "api_integration"]>>],
      [key |-> "platform_support",
       value |-> <<[key |-> "linux", value |-> "platform_detection"],
                   [key |-> "termux", value |-> "platform_detection"],
                   [key |-> "android", value |-> "platform_detection"]>>]>>

\* all_categories[category].extend(items) for every entry of a dict
RECURSIVE ExtendAll(_, _)
ExtendAll(all_categories, d) ==
    IF d = <<>> THEN all_categories
    ELSE ExtendAll(DictSet(all_categories, Head(d).key,
                           (IF DictHas(all_categories, Head(d).key)
                            THEN DictLookup(all_categories, Head(d).key) ELSE <<>>)
                           \o Head(d).value),
                   Tail(d))

\* [item['dependency'] for item in items] for every entry of dependency_features
DependencyNames(dependency_features) ==
    [i \in 1..Len(dependency_features) |->
        [key |-> dependency_features[i].key,
         value |-> [j \in 1..Len(dependency_features[i].value) |->
                      [str |-> dependency_features[i].value[j].dependency]]]]

\* next((f for f in existing['files'] if 'kawai.py' in f['file']), None)
kawai_file(existing) ==
    LET found == SelectSeq(existing.files, LAMBDA f : Contains("kawai.py", f.file))
    IN  IF found = <<>> THEN <<>> ELSE <<Head(found)>>

\* create_comprehensive_feature_analysis once `existing` is loaded
create_comprehensive_feature_analysis(existing) ==
    LET inferred_features ==
            IF kawai_file(existing) # <<>>
            THEN infer_features_from_imports(
                     DictGet(kawai_file(existing)[1], "imports", <<>>))
            ELSE <<>>
        dependency_features ==
            DependencyFeatures(<<>>, DictGet(existing, "dependencies", <<>>))
        all_categories ==
            ExtendAll(ExtendAll(ExtendAll(<<>>, DictGet(existing, "categories", <<>>)),
                                inferred_features),
                      DependencyNames(dependency_features))
    IN  [repository |-> RepoPath,
         analysis_method |-> "sensAI-inspired feature engineering",
         files_analyzed |-> DictGet(existing, "files", <<>>),
         feature_categories |-> SelectSeq(all_categories, LAMBDA e : e.value # <<>>),
         inferred_features |-> inferred_features,
         dependency_features |-> dependency_features,
         comprehensive_categorization |-> comprehensive]

\* the name of an item of a category: a field of a dict, or the string itself
ItemName(item) ==
    IF "str" \in DOMAIN item THEN item.str
    ELSE DictGet(item, "name",
                 DictGet(item, "module", DictGet(item, "dependency", "unknown")))

\* the body of the loop over the sorted categories for one category
SummarySection(category, items) ==
    <<"### " \o CategoryTitle(category) \o " (" \o ToString(Len(items)) \o " items)", "">>
    \o [i \in 1..(IF Len(items) < 5 THEN Len(items) ELSE 5) |->
          "- " \o ItemName(items[i])]
    \o (IF Len(items) > 5
        THEN <<"- ... and " \o ToString(Len(items) - 5) \o " more">>
        ELSE <<>>)
    \o <<"">>

\* the loop over sorted(enhanced_analysis['feature_categories'].items(), ...)
CategorySummaryMd(enhanced_analysis) ==
    LET categories == enhanced_analysis.feature_categories
        sorted == SortedByCount([i \in 1..Len(categories) |->
                                   [key |-> categories[i].key,
                                    value |-> categories[i].value,
                                    count |-> Len(categories[i].value)]])
    IN  Flatten([i \in 1..Len(sorted) |-> SummarySection(sorted[i].key, sorted[i].value)])

\* what a run of sensai_feature_analysis.py leaves in sensai_feature_analysis.json
SensaiRun(a, b, r) ==
    analyze_repository(NewFeatureCategorizer, RepoPath,
                       [NoFiles EXCEPT ![InstallPy] = a, ![KawaiPy] = b,
                                       ![RequirementsTxt] = r]).ret

SensaiStates ==
    { Missing, Corrupt }
    \cup { JsonFile(SensaiRun(a, b, r)) :
              a \in { Missing, Parsed(SourceOf(FooTree), FooTree) },
              b \in { Missing, Parsed(SourceOf(BarTree), BarTree),
                      Unparsable("import os\nimport zlib, types\n((\n", "SyntaxError") },
              r \in { Missing, TextFile("edge-tts==1.2.3\n# pinned\nrequests>=2.0\n\n"),
                      TextFile("pycryptodome\n prompt_toolkit<=3.0 \n") } }

InitEnhanced ==
    /\ driver = "enhanced_sensai_analysis"
    /\ \E s \in SensaiStates : fs = [NoFiles EXCEPT ![SensaiJson] = s]
    /\ pc = "load"
    /\ idx = 1
    /\ local = <<>>
    /\ out = <<>>
    /\ input = <<>> /\ ret = <<>>

\* create_comprehensive_feature_analysis: json.load of the earlier analysis, or
\* the empty default when the file is absent
EnhancedCreate ==
    /\ driver = "enhanced_sensai_analysis" /\ pc = "load"
    /\ LET existing_file == fs[SensaiJson]
       IN  IF Exists(existing_file) /\ JsonLoadError(existing_file) # <<>>
           THEN /\ pc' = "crashed"
                /\ local' = [exc |-> JsonLoadError(existing_file)[1]]
           ELSE /\ pc' = "write"
                /\ \E existing \in { IF Exists(existing_file) THEN existing_file.value
                                     ELSE [files |-> <<>>, summary |-> <<>>,
                                           dependencies |-> <<>>] } :
                      local' = [enhanced |->
                                   create_comprehensive_feature_analysis(existing)]
    /\ UNCHANGED <<input, ret, driver, fs, idx, out>>

\* write_enhanced_to_serena: the memory file, then the JSON file
EnhancedWrite ==
    /\ driver = "enhanced_sensai_analysis" /\ pc = "write"
    /\ out' = DictSet(DictSet(out, EnhancedMd,
                              [lines |-> CategorySummaryMd(local.enhanced)]),
                      EnhancedJson, local.enhanced)
    /\ pc' = "done"
    /\ UNCHANGED <<input, ret, driver, fs, idx, local>>

(***************************************************************************)
(* run_serena_onboarding.py: run_serena_onboarding() and the __main__      *)
(* block.  A text file written is [lines |-> its lines]; of the constant   *)
(* text of project_onboarding.md only the title line is kept.              *)
(***************************************************************************)
OnboardingMd == "/workspace/kawaiigpt/.serena/memories/project_onboarding.md"
KnowledgeGraphMd == "/workspace/kawaiigpt/.serena/memories/extracted_knowledge_graph.md"
KnowledgeTriplesNt == "/workspace/kawaiigpt/knowledge_triples.nt"
KnowledgeQuadsNq == "/workspace/kawaiigpt/knowledge_quads.nq"

\* what serena_analysis.py leaves in serena_comprehensive_analysis.json when
\* install.py, kawai.py and README.md are absent and knowledge_extraction.json
\* holds k
SerenaRun(k) == ComprehensiveResults(CrossFile(LoadedFacts(k)))

ComprehensiveStates ==
    { Missing, Corrupt,
      JsonFile(SerenaRun([triples |-> <<>>, quads |-> <<>>])),
      JsonFile(SerenaRun(InternalRun(Parsed(SourceOf(FooTree), FooTree), Missing))),
      JsonFile(SerenaRun(InternalRun(Parsed(SourceOf(BarTree), BarTree),
                                     Parsed(SourceOf(FooTree), FooTree)))) }

InitOnboarding ==
    /\ driver = "run_serena_onboarding"
    /\ \E c \in ComprehensiveStates : fs = [NoFiles EXCEPT ![SerenaJson] = c]
    /\ pc = "start"
    /\ idx = 1
    /\ local = [printed |-> <<>>]
    /\ out = <<>>
    /\ input = <<>> /\ ret = <<>>

\* memories_dir.mkdir and the write of project_onboarding.md
OnboardingWriteMemory ==
    /\ driver = "run_serena_onboarding" /\ pc = "start"
    /\ out' = DictSet(out, OnboardingMd, [lines |-> <<"# KawaiiGPT Project Onboarding">>])
    /\ pc' = "load"
    /\ UNCHANGED <<input, ret, driver, fs, idx, local>>

\* if analysis_file.exists(): json.load, else print the error and return None
OnboardingLoad ==
    /\ driver = "run_serena_onboarding" /\ pc = "load"
    /\ LET analysis_file == fs[SerenaJson]
       IN  IF ~Exists(analysis_file)
           THEN /\ pc' = "returned"
                /\ local' = [local EXCEPT !.printed =
                                Append(@, "Error: Comprehensive analysis file not found")]
           ELSE IF JsonLoadError(analysis_file) # <<>>
           THEN /\ pc' = "crashed"
                /\ local' = local @@ [exc |-> JsonLoadError(analysis_file)[1]]
           ELSE /\ pc' = "memory"
                /\ local' = local @@ [analysis |-> analysis_file.value]
    /\ UNCHANGED <<input, ret, driver, fs, idx, out>>

\* the text of extracted_knowledge_graph.md down to the graph breakdown
knowledge_memory(analysis) ==
    <<"# Extracted Knowledge Graph Structures", "", "## Summary",
      "- Total Triples Extracted: " \o ToString(analysis.summary.total_triples),
      "- Total Quads Extracted: " \o ToString(analysis.summary.total_quads),
      "- Files Analyzed: " \o JoinWith(", ", analysis.summary.files_analyzed),
      "- Knowledge Graphs: " \o JoinWith(", ", analysis.summary.graphs),
      "", "## Graph Breakdown">>
    \o Flatten([i \in 1..Len(analysis.triples_by_graph) |->
                  <<"", "### " \o analysis.triples_by_graph[i].key,
                    "- " \o ToString(Len(analysis.triples_by_graph[i].value))
                         \o " triples/quads">>])

OnboardingKnowledgeMemory ==
    /\ driver = "run_serena_onboarding" /\ pc = "memory"
    /\ out' = DictSet(out, KnowledgeGraphMd, [lines |-> knowledge_memory(local.analysis)])
    /\ pc' = "rdf"
    /\ UNCHANGED <<input, ret, driver, fs, idx, local>>

rdf_triples(analysis) ==
    [i \in 1..Len(analysis.triples) |->
        "<" \o analysis.triples[i].subject \o "> <" \o analysis.triples[i].predicate
        \o "> <" \o analysis.triples[i].object \o "> ."]

rdf_quads(analysis) ==
    [i \in 1..Len(analysis.quads) |->
        "<" \o analysis.quads[i].subject \o "> <" \o analysis.quads[i].predicate
        \o "> <" \o analysis.quads[i].object \o "> <" \o analysis.quads[i].graph
        \o "> ."]

\* the two RDF files and the dict the function returns
OnboardingExport ==
    /\ driver = "run_serena_onboarding" /\ pc = "rdf"
    /\ out' = DictSet(DictSet(out, KnowledgeTriplesNt,
                              [lines |-> rdf_triples(local.analysis)]),
                      KnowledgeQuadsNq, [lines |-> rdf_quads(local.analysis)])
    /\ ret' = [onboarding_complete |-> TRUE,
               memories_created |-> <<OnboardingMd, KnowledgeGraphMd>>,
               knowledge_extracted |-> [triples |-> Len(rdf_triples(local.analysis)),
                                        quads |-> Len(rdf_quads(local.analysis))],
               output_files |-> <<KnowledgeTriplesNt, KnowledgeQuadsNq, SerenaJson>>]
    /\ pc' = "done"
    /\ UNCHANGED <<input, driver, fs, idx, local>>

(***************************************************************************)
(* All scripts.                                                            *)
(***************************************************************************)
Init ==
    \/ InitInternal \/ InitSensai \/ InitSerena \/ InitRepo \/ InitKawaii
    \/ InitOnboarding \/ InitEnhanced

Next ==
    \/ InternalLoop \/ InternalSave
    \/ SensaiAnalyze \/ SensaiWrite
    \/ SerenaLoad \/ SerenaFile \/ SerenaCrossFile \/ SerenaReadme \/ SerenaSave
    \/ RepoInitAgent \/ RepoProjectStructure \/ RepoReadFile \/ RepoReadDone
    \/ RepoSearch \/ RepoSaveMemories \/ RepoWrite
    \/ KawaiiStart \/ KawaiiInitAgent \/ KawaiiOnboarding \/ KawaiiListDir
    \/ KawaiiFile \/ KawaiiWrite
    \/ OnboardingWriteMemory \/ OnboardingLoad \/ OnboardingKnowledgeMemory
    \/ OnboardingExport
    \/ EnhancedCreate \/ EnhancedWrite

Spec == Init /\ [][Next]_vars

(***************************************************************************)
(* Claims about the output files of the scripts.                           *)
(***************************************************************************)
Done == pc = "done"

\* the outputs written so far that hold a list of quads
QuadOutputs ==
    SelectSeq([i \in 1..Len(out) |-> out[i].value], LAMBDA v : "quads" \in DOMAIN v)

\* quad q is fact t with a graph label added
QuadOfFact(q, t) ==
    /\ SPO(q) = SPO(t)
    /\ "graph" \in DOMAIN q
    /\ q.graph # ""

\* C4: every quad a script writes to its output is a fact of that output, with
\* the same subject, predicate and object, and carries a non-empty graph field.
C4_WrittenQuadsAreFactsWithGraph ==
    \A i \in 1..Len(QuadOutputs) :
        \A j \in 1..Len(QuadOutputs[i].quads) :
            \E k \in 1..Len(QuadOutputs[i].triples) :
                QuadOfFact(QuadOutputs[i].quads[j], QuadOutputs[i].triples[k])

\* the per-file records of the output of the script that ran
FileRecords ==
    CASE driver = "extract_knowledge_internal" ->
            DictLookup(out, KnowledgeJson).files_analyzed
      [] driver = "sensai_feature_analysis" -> DictLookup(out, SensaiJson).files

KeepsFileRecords == driver \in {"extract_knowledge_internal", "sensai_feature_analysis"}

\* C9: when the script is done, every target file that is missing or cannot be
\* opened has a record among the per-file records of the output, and that record
\* carries an error field.
C9_UnreadableFileRecordedWithError ==
    (Done /\ KeepsFileRecords) =>
        \A i \in 1..Len(python_files) :
            OpenError(fs[python_files[i]]) # <<>> =>
                \E j \in 1..Len(FileRecords) :
                    /\ FileRecords[j].file = python_files[i]
                    /\ "error" \in DOMAIN FileRecords[j]

LoopsOverTargets ==
    driver \in {"extract_knowledge_internal", "sensai_feature_analysis",
                "serena_analysis"}

\* a target file on which reading or parsing fails
Faulty(f) == OpenError(f) # <<>> \/ (f.kind = "file" /\ ~f.parse.ok)

\* the files read outside the loop over the target files can be read
OtherFilesReadable ==
    CASE driver = "sensai_feature_analysis" -> StrictReadError(fs[RequirementsTxt]) = <<>>
      [] driver = "serena_analysis" ->
            /\ ~Exists(fs[KnowledgeJson]) \/ JsonLoadError(fs[KnowledgeJson]) = <<>>
            /\ StrictReadError(fs[ReadmeMd]) = <<>>
      [] OTHER -> TRUE

\* the target files the loop has handled, as the output shows them
HandledTargets ==
    CASE driver = "extract_knowledge_internal" ->
            [i \in 1..Len(FileRecords) |-> FileRecords[i].file]
      [] driver = "sensai_feature_analysis" ->
            [i \in 1..Len(FileRecords) |-> FileRecords[i].file]
      [] driver = "serena_analysis" -> DictLookup(out, SerenaJson).summary.files_analyzed

\* the target files the loop is to handle: those that exist and, in
\* serena_analysis.py, whose content could be read into files_info
ExpectedTargets ==
    IF driver = "serena_analysis"
    THEN LET readable == SelectSeq(python_files, LAMBDA p : OpenError(fs[p]) = <<>>)
         IN  [i \in 1..Len(readable) |-> basename(readable[i])]
    ELSE SelectSeq(python_files, LAMBDA p : Exists(fs[p]))

\* the script stops early only when a file read outside the loop over the target
\* files cannot be read, and once done its output shows every target file handled
C10_Safety ==
    LoopsOverTargets =>
        /\ pc = "crashed" => ~OtherFilesReadable
        /\ pc \in {"loop", "files"} => idx \in 1..(Len(python_files) + 1)
        /\ Done => /\ out # <<>>
                   /\ HandledTargets = ExpectedTargets

\* the loop over the target files is at file idx
AtTargetFile ==
    /\ LoopsOverTargets
    /\ pc \in {"loop", "files"}
    /\ idx <= Len(python_files)

\* C10: in the three scripts that loop over the target files, no state of a
\* target file makes the script stop: the step taken at file i, whatever reading
\* or parsing it gives, leads to the next file of the list; the script stops
\* early only when a file read outside the loop cannot be read; and the output
\* it writes shows every target file handled.
C10_FileErrorsNeverAbort ==
    /\ []C10_Safety
    /\ [][AtTargetFile => (pc' = pc /\ idx' = idx + 1)]_vars

\* a script has written its output although its first target file could not
\* be opened or parsed, and the second target file is in the output
C10_Witness ==
    /\ LoopsOverTargets /\ Done
    /\ Exists(fs[InstallPy]) /\ Faulty(fs[InstallPy])
    /\ Exists(fs[KawaiPy]) /\ OpenError(fs[KawaiPy]) = <<>>
    /\ HandledTargets # <<>>
    /\ HandledTargets[Len(HandledTargets)] \in {KawaiPy, basename(KawaiPy)}

(***************************************************************************)
(* Claims about the calls on the external agent and the exit status.       *)
(***************************************************************************)
UsesAgent == driver \in {"analyze_repo", "analyze_kawaiigpt"}

\* the script is about to make a tool call on the agent: onboarding, list
\* directory, read file, search pattern, symbols overview, find symbol or
\* write memory
AtToolCall ==
    /\ UsesAgent
    /\ \/ pc \in {"onboarding", "list_dir", "structure", "search"}
       \/ pc = "read" /\ idx <= Len(key_files)
       \/ pc = "files" /\ idx <= Len(main_files) /\ Exists(fs[main_files[idx]])

Aborted == pc \in {"crashed", "exit1"}

\* C11: in the scripts that use the agent, the step that makes a tool call,
\* whether the call returns or raises, never ends the run: the script goes on
\* to its next step.
C11_ToolCallErrorsNeverAbort == [][AtToolCall => ~Aborted']_vars

\* the process of the script has ended
Exited == pc \in {"done", "returned", "crashed", "exit1"}

\* the exit status of the process: 1 after sys.exit(1) and after an exception
\* nothing catches, 0 when main returns or the script runs to its end
ExitStatus == IF pc \in {"crashed", "exit1"} THEN 1 ELSE 0

\* the JSON file each script is to write
OutputFile ==
    CASE driver = "extract_knowledge_internal" -> KnowledgeJson
      [] driver = "sensai_feature_analysis" -> SensaiJson
      [] driver = "serena_analysis" -> SerenaJson
      [] driver = "analyze_repo" -> AnalysisOutputJson
      [] driver = "analyze_kawaiigpt" -> SerenaAnalysisJson

\* C12: a script that has exited with status 0 has written its output file;
\* put the other way round, a run that an error ended before the output was
\* written has a non-zero exit status.
C12_ExitZeroMeansOutputWritten ==
    (Exited /\ ExitStatus = 0) => DictHas(out, OutputFile)

\* the scripts that start from the JSON file an earlier script wrote
ReadsPriorJson ==
    driver \in {"serena_analysis", "enhanced_sensai_analysis", "run_serena_onboarding"}

PriorJson ==
    CASE driver = "serena_analysis" -> KnowledgeJson
      [] driver = "enhanced_sensai_analysis" -> SensaiJson
      [] driver = "run_serena_onboarding" -> SerenaJson

\* every file the script is to write
OutputFiles ==
    CASE driver = "serena_analysis" -> {SerenaJson}
      [] driver = "enhanced_sensai_analysis" -> {EnhancedMd, EnhancedJson}
      [] driver = "run_serena_onboarding" ->
            {OnboardingMd, KnowledgeGraphMd, KnowledgeTriplesNt, KnowledgeQuadsNq}

\* C13: a script that finds the JSON file of the earlier step missing, and can
\* read whatever else it reads, ends with every one of its output files
\* written.
C13_MissingPriorJsonStillWritesOutputs ==
    (ReadsPriorJson /\ ~Exists(fs[PriorJson]) /\ OtherFilesReadable /\ Exited)
        => \A p \in OutputFiles : DictHas(out, p)

(***************************************************************************)
(* serena_analysis.py: the two groupings of serena_comprehensive_analysis  *)
(* .json against the full lists of the same file.                          *)
(***************************************************************************)
\* the label a fact is grouped under
GraphLabel(fact) == DictGet(fact, "graph", "default")

\* the facts of one label, in their order in the full list
FactsOfGraph(facts, label) == SelectSeq(facts, LAMBDA fact : GraphLabel(fact) = label)

\* where a label first appears in the full list
FirstAppearance(facts, label) ==
    CHOOSE n \in 1..Len(facts) :
        /\ GraphLabel(facts[n]) = label
        /\ \A k \in 1..(n - 1) : GraphLabel(facts[k]) # label

RECURSIVE GroupSizes(_)
GroupSizes(groups) ==
    IF groups = <<>> THEN 0 ELSE Len(Head(groups).value) + GroupSizes(Tail(groups))

\* groups is the partition of facts by label: one group per label that occurs,
\* each holding the facts of its label in list order, groups in order of first
\* appearance
PartitionsByGraph(groups, facts) ==
    /\ \A i, j \in 1..Len(groups) : groups[i].key = groups[j].key => i = j
    /\ \A n \in 1..Len(facts) : DictHas(groups, GraphLabel(facts[n]))
    /\ \A i \in 1..Len(groups) :
          /\ groups[i].value # <<>>
          /\ groups[i].value = FactsOfGraph(facts, groups[i].key)
    /\ \A i, j \in 1..Len(groups) :
          i < j => FirstAppearance(facts, groups[i].key)
                       < FirstAppearance(facts, groups[j].key)
    /\ GroupSizes(groups) = Len(facts)

Labels(groups) == { groups[i].key : i \in 1..Len(groups) }

\* the labels summary.graphs lists
ListedGraphs(results) ==
    { results.summary.graphs[i] : i \in 1..Len(results.summary.graphs) }

SerenaSaved == driver = "serena_analysis" /\ pc = "done"

IsPrefix(p, s) == Len(p) <= Len(s) /\ SubSeq(s, 1, Len(p)) = p

\* the list knowledge_extraction.json holds under kind, empty without the file
LoadedList(kind) ==
    IF Exists(fs[KnowledgeJson]) THEN DictGet(fs[KnowledgeJson].value, kind, <<>>)
    ELSE <<>>

HasFactLists(l) == "enhanced_triples" \in DOMAIN l

\* C22: the saved triples and quads begin with the loaded ones, unchanged and
\* in order, and every step of the script only appends to the two lists:
\* nothing is removed, rewritten or merged, equal facts stay side by side.
C22_FactsAreAppendOnly ==
    /\ [](SerenaSaved =>
            /\ IsPrefix(LoadedList("triples"), DictLookup(out, SerenaJson).triples)
            /\ IsPrefix(LoadedList("quads"), DictLookup(out, SerenaJson).quads))
    /\ [][(driver = "serena_analysis" /\ HasFactLists(local))
             => /\ HasFactLists(local')
                /\ IsPrefix(local.enhanced_triples, local'.enhanced_triples)
                /\ IsPrefix(local.enhanced_quads, local'.enhanced_quads)]_vars

\* a saved analysis that begins with loaded facts and holds the depends_on
\* fact of a twice-imported module twice
C22_Witness ==
    /\ SerenaSaved
    /\ LoadedList("triples") # <<>>
    /\ \E results \in { DictLookup(out, SerenaJson) } :
          /\ Len(results.triples) > Len(LoadedList("triples"))
          /\ \E a, b \in 1..Len(results.triples) :
                /\ a < b
                /\ results.triples[a] = results.triples[b]
                /\ results.triples[a].predicate = "depends_on"

\* what s holds after its first n elements
After(s, n) == SubSeq(s, n + 1, Len(s))

\* C27: every step of serena_analysis adds the same facts, field by field, to
\* the triple list and to the quad list, so the saved total_quads minus
\* total_triples is the difference of the two loaded lists (0 without the
\* file).
C27_TriplesAndQuadsInLockstep ==
    /\ [](SerenaSaved =>
            \E summary \in { DictLookup(out, SerenaJson).summary } :
                summary.total_quads - summary.total_triples
                    = Len(LoadedList("quads")) - Len(LoadedList("triples")))
    /\ [][(driver = "serena_analysis" /\ HasFactLists(local) /\ HasFactLists(local'))
             => After(local'.enhanced_triples, Len(local.enhanced_triples))
                   = After(local'.enhanced_quads, Len(local.enhanced_quads))]_vars

\* a saved analysis with loaded facts, depends_on facts, the part_of facts and
\* related_to facts
C27_Witness ==
    /\ SerenaSaved
    /\ LoadedList("quads") # <<>>
    /\ \E results \in { DictLookup(out, SerenaJson) } :
          /\ \E i \in 1..Len(results.quads) : results.quads[i].predicate = "depends_on"
          /\ \E i \in 1..Len(results.quads) : results.quads[i].predicate = "related_to"
          /\ \E i \in 1..Len(results.quads) : results.quads[i] = PartOf("kawai.py")
          /\ results.summary.total_quads = Len(results.quads)
          /\ results.summary.total_triples = Len(results.triples)


(***************************************************************************)
(* extract_knowledge.py: extract_semantic_relationships() and the __main__ *)
(* block, run again and again on one project directory.  idx counts the    *)
(* runs; between two runs the target files may change;                     *)
(* knowledge_extraction.json stays as the last run left it.  The two       *)
(* subprocesses are external: how they end is chosen when they are run.    *)
(***************************************************************************)
MaxRuns == 2

ScriptPy == "/workspace/kawaiigpt/extract_knowledge_internal.py"

TargetStates ==
    { Missing, Parsed(SourceOf(FooTree), FooTree), Parsed(SourceOf(BarTree), BarTree),
      Unparsable("import os\ndef install(:\n    pass\n", "SyntaxError") }

\* subprocess.run of the package runner: it ends with a return code, or
\* subprocess.run raises (the command cannot be started)
ProvisionOutcomes ==
    { [raises |-> FALSE, stdout |-> "Created project kawaiigpt", stderr |-> "",
       returncode |-> 0],
      [raises |-> FALSE, stdout |-> "", stderr |-> "project already exists",
       returncode |-> 1],
      [raises |-> TRUE, stdout |-> "", stderr |-> "No such file or directory: 'uvx'",
       returncode |-> 0] }

\* run_serena_command: (stdout, stderr, returncode), or ("", str(e), 1)
run_serena_command(outcome) ==
    IF outcome.raises
    THEN [stdout |-> "", stderr |-> outcome.stderr, code |-> 1]
    ELSE [stdout |-> outcome.stdout, stderr |-> outcome.stderr,
          code |-> outcome.returncode]

\* how the run of python3 extract_knowledge_internal.py ends
ExtractionOutcomes == { "completed", "failed_before_write", "failed_in_write",
                        "not_started" }

InitExtract ==
    /\ driver = "extract_knowledge"
    /\ \E a, b \in TargetStates : fs = [NoFiles EXCEPT ![InstallPy] = a, ![KawaiPy] = b]
    /\ pc = "provision"
    /\ idx = 1
    /\ local = [printed |-> <<>>]
    /\ out = <<>>
    /\ input = <<>> /\ ret = <<>>

\* mutant: run_serena_command without its try, so that the exception of
\* subprocess.run leaves extract_semantic_relationships
ExtractProvision_NoTry ==
    /\ driver = "extract_knowledge" /\ pc = "provision"
    /\ \E outcome \in ProvisionOutcomes :
          IF outcome.raises
          THEN /\ pc' = "crashed"
               /\ local' = [printed |-> local.printed, exc |-> "FileNotFoundError"]
          ELSE /\ pc' = "script"
               /\ local' =
                     [printed |->
                         Append(local.printed,
                                IF outcome.returncode # 0
                                THEN "Note: Project may already exist or there was an issue: "
                                     \o outcome.stderr
                                ELSE "Project created: " \o outcome.stdout),
                      code |-> outcome.returncode]
    /\ UNCHANGED <<input, ret, driver, fs, idx, out>>

\* stdout, stderr, code = run_serena_command([...]) and the line printed about it
ExtractProvision ==
    /\ driver = "extract_knowledge" /\ pc = "provision"
    /\ \E outcome \in ProvisionOutcomes :
          \E r \in { run_serena_command(outcome) } :
              local' = [printed |->
                           Append(local.printed,
                                  IF r.code # 0
                                  THEN "Note: Project may already exist or there was an issue: "
                                       \o r.stderr
                                  ELSE "Project created: " \o r.stdout),
                        code |-> r.code]
    /\ pc' = "script"
    /\ UNCHANGED <<input, ret, driver, fs, idx, out>>

\* the write of extract_knowledge_internal.py; open() is not guarded
ExtractWriteScript ==
    /\ driver = "extract_knowledge" /\ pc = "script"
    /\ \E opened \in BOOLEAN :
          IF opened
          THEN /\ out' = DictSet(out, ScriptPy, [lines |-> <<"import ast">>])
               /\ pc' = "run"
               /\ local' = local
          ELSE /\ out' = out
               /\ pc' = "crashed"
               /\ local' = local @@ [exc |-> "PermissionError"]
    /\ UNCHANGED <<input, ret, driver, fs, idx>>

\* subprocess.run(["python3", script_path]): the return code is not looked at
ExtractRunScript ==
    /\ driver = "extract_knowledge" /\ pc = "run"
    /\ \E outcome \in ExtractionOutcomes :
          /\ local' = IF outcome = "not_started"
                      THEN local @@ [exc |-> "FileNotFoundError"]
                      ELSE local @@ [extraction |-> outcome]
          /\ pc' = IF outcome = "not_started" THEN "crashed" ELSE "read"
          /\ fs' = CASE outcome = "completed" ->
                           [fs EXCEPT ![KnowledgeJson] =
                               JsonFile(InternalRun(fs[InstallPy], fs[KawaiPy]))]
                     [] outcome = "failed_in_write" -> [fs EXCEPT ![KnowledgeJson] = Corrupt]
                     [] OTHER -> fs
    /\ UNCHANGED <<input, ret, driver, idx, out>>

\* the lines printed about the results read
ExtractionSummary(results) ==
    <<"Files analyzed: " \o ToString(Len(results.files_analyzed)),
      "Total triples extracted: " \o ToString(Len(results.triples)),
      "Total quads extracted: " \o ToString(Len(results.quads))>>

\* if results_file.exists(): json.load and return, else print and return None
ExtractRead ==
    /\ driver = "extract_knowledge" /\ pc = "read"
    /\ LET results_file == fs[KnowledgeJson]
       IN  IF ~Exists(results_file)
           THEN /\ pc' = "returned"
                /\ ret' = <<>>
                /\ local' = [local EXCEPT !.printed =
                                Append(@, "Error: Results file not created")]
           ELSE IF JsonLoadError(results_file) # <<>>
           THEN /\ pc' = "crashed"
                /\ ret' = <<>>
                /\ local' = local @@ [exc |-> JsonLoadError(results_file)[1]]
           ELSE /\ pc' = "done"
                /\ ret' = <<results_file.value>>
                /\ local' = [local EXCEPT !.printed =
                                @ \o ExtractionSummary(results_file.value)]
    /\ UNCHANGED <<input, driver, fs, idx, out>>

\* the script is started again, after the target files may have changed
ExtractNextRun ==
    /\ driver = "extract_knowledge" /\ Exited
    /\ idx < MaxRuns
    /\ \E a, b \in TargetStates : fs' = [fs EXCEPT ![InstallPy] = a, ![KawaiPy] = b]
    /\ pc' = "provision"
    /\ idx' = idx + 1
    /\ local' = [printed |-> <<>>]
    /\ out' = <<>>
    /\ ret' = <<>>
    /\ UNCHANGED <<input, driver>>

SpecExtract ==
    InitExtract /\ [][ExtractProvision \/ ExtractWriteScript \/ ExtractRunScript
                      \/ ExtractRead \/ ExtractNextRun]_vars

\* C14: whenever extract_semantic_relationships returns results, they are what
\* the extraction step computes from the target files as they are in this run,
\* and the extraction step of this run has completed.
C14_ReturnsThisRunsResults ==
    (driver = "extract_knowledge" /\ pc = "done")
        => /\ ret = <<InternalRun(fs[InstallPy], fs[KawaiPy])>>
           /\ local.extraction = "completed"

\* C16: whatever the provisioning subprocess does (return code 0, another
\* return code, or not started at all), the step that runs it leads to the
\* write of the analysis script and changes no file; and the run is never ended
\* by the exception of the provisioning subprocess.
C16_ProvisioningFailureNotFatal ==
    /\ [](driver = "extract_knowledge" /\ pc = "crashed"
            => /\ local.exc \in {"PermissionError", "FileNotFoundError", "JSONDecodeError"}
               /\ "code" \in DOMAIN local)
    /\ [][(driver = "extract_knowledge" /\ pc = "provision")
            => (pc' = "script" /\ fs' = fs /\ out' = out /\ idx' = idx)]_vars

\* a run in which provisioning failed has returned the results of its
\* extraction step
C16_Witness ==
    /\ driver = "extract_knowledge" /\ pc = "done"
    /\ local.code # 0
    /\ local.extraction = "completed"
    /\ ret # <<>> /\ ret[1].triples # <<>>

(***************************************************************************)
(* One FeatureCategorizer object and the calls a client makes on it, in    *)
(* any order; history lists the calls made so far.                         *)
(***************************************************************************)
MaxCalls == 3

CallNames == {"install_config", "HttpRequest"}
CallTypes == {"function", "variable"}

InitCat ==
    /\ driver = "FeatureCategorizer"
    /\ \E a \in { Unreadable, Parsed(SourceOf(FooTree), FooTree),
                   Unparsable("import os\ndef install(:\n    pass\n", "SyntaxError") },
          r \in { Missing, TextFile("edge-tts==1.2.3\n# pinned\nrequests>=2.0\n\n") } :
          fs = [NoFiles EXCEPT ![InstallPy] = a,
                               ![KawaiPy] = Parsed(SourceOf(BarTree), BarTree),
                               ![RequirementsTxt] = r]
    /\ pc = "new"
    /\ idx = 0
    /\ local = [categorizer |-> NewFeatureCategorizer, history |-> <<>>]
    /\ out = <<>>
    /\ input = <<>> /\ ret = <<>>

\* categorizer.categorize_feature(name, type, context)
CatCategorize ==
    /\ driver = "FeatureCategorizer" /\ idx < MaxCalls
    /\ \E name \in CallNames, type \in CallTypes :
          \E c \in { categorize_feature(local.categorizer, name, type,
                                        [file |-> "install.py"]) } :
              /\ input' = [feature_name |-> name, feature_type |-> type,
                           self |-> local.categorizer]
              /\ ret' = c.ret
              /\ local' = [categorizer |-> c.self,
                           history |-> Append(local.history,
                                              [call |-> "categorize_feature",
                                               name |-> name, label |-> c.ret])]
    /\ pc' = "categorize_feature"
    /\ idx' = idx + 1
    /\ UNCHANGED <<driver, fs, out>>

\* categorizer.analyze_python_file(path)
CatAnalyzeFile ==
    /\ driver = "FeatureCategorizer" /\ idx < MaxCalls
    /\ \E path \in {InstallPy, KawaiPy} :
          \E a \in { analyze_python_file(local.categorizer, path, fs[path]) } :
              local' = [categorizer |-> a.self,
                        history |-> Append(local.history,
                                           [call |-> "analyze_python_file",
                                            name |-> path, label |-> ""])]
    /\ pc' = "analyze_python_file"
    /\ idx' = idx + 1
    /\ input' = <<>> /\ ret' = <<>>
    /\ UNCHANGED <<driver, fs, out>>

\* categorizer.analyze_repository(repo_path), whether it returns or raises
CatAnalyzeRepository ==
    /\ driver = "FeatureCategorizer" /\ idx < MaxCalls
    /\ \E a \in { analyze_repository(local.categorizer, RepoPath, fs) } :
          /\ local' = [categorizer |-> a.self,
                       history |-> Append(local.history,
                                          [call |-> "analyze_repository",
                                           name |-> RepoPath, label |-> ""])]
          /\ ret' = a.ret
    /\ pc' = "analyze_repository"
    /\ idx' = idx + 1
    /\ input' = <<>>
    /\ UNCHANGED <<driver, fs, out>>

SpecCat == InitCat /\ [][CatCategorize \/ CatAnalyzeFile \/ CatAnalyzeRepository]_vars

IsCategorizeCall(h) == h.call = "categorize_feature"

\* C7: on one FeatureCategorizer, any two calls of categorize_feature with the
\* same name have returned the same label, whatever was called in between, and
\* the call of categorize_feature just made has left the object (categories and
\* features) as it was.
C7_CategorizerDeterministicWithoutEffect ==
    /\ \A i, j \in 1..Len(local.history) :
          (/\ IsCategorizeCall(local.history[i])
           /\ IsCategorizeCall(local.history[j])
           /\ local.history[i].name = local.history[j].name)
              => local.history[i].label = local.history[j].label
    /\ pc = "categorize_feature" => local.categorizer = input.self

\* the same name categorized before and after an analysis that filled the
\* categories of the object
C7_Witness ==
    /\ pc = "categorize_feature"
    /\ Len(local.history) = 3
    /\ IsCategorizeCall(local.history[1])
    /\ ~IsCategorizeCall(local.history[2])
    /\ local.history[1].name = local.history[3].name
    /\ local.categorizer # NewFeatureCategorizer


\* the labels categorize_feature never returns
NeverReturned == {"authentication", "dependency_management"}

\* C29: whatever calls were made on a FeatureCategorizer, its category table
\* has the 13 keys of __init__, categorize_feature returns for every name a
\* label that is one of these keys and is neither authentication nor
\* dependency_management, and the lists of these two labels are empty.
C29_LabelsAreKeysOfTheTable ==
    driver = "FeatureCategorizer" =>
        \E categories \in { local.categorizer.categories } :
            /\ Cardinality(DOMAIN categories) = 13
            /\ NeverReturned \subseteq DOMAIN categories
            /\ \A name \in FeatureNames :
                  \E c \in { categorize_feature(local.categorizer, name, "function",
                                                [file |-> "install.py"]) } :
                      /\ c.ret \in DOMAIN categories
                      /\ c.ret \notin NeverReturned
            /\ \A label \in NeverReturned : categories[label] = <<>>

\* three analyses have filled the table, and the two lists are empty
C29_Witness ==
    /\ driver = "FeatureCategorizer"
    /\ Len(local.history) = 3
    /\ \A i \in 1..3 : ~IsCategorizeCall(local.history[i])
    /\ \E label \in DOMAIN local.categorizer.categories :
          Len(local.categorizer.categories[label]) >= 3
    /\ \A label \in NeverReturned : local.categorizer.categories[label] = <<>>

\* the calls made so far on the object are all calls of analyze_repository
OnlyRepositoryAnalyses ==
    \A i \in 1..Len(local.history) : local.history[i].call = "analyze_repository"

\* C15: the result of a call of analyze_repository that follows nothing but
\* calls of analyze_repository on the same object has the categories and the
\* summary.features_by_category that the call gives on a new object.
C15_CategoriesFreshPerAnalysis ==
    (driver = "FeatureCategorizer" /\ pc = "analyze_repository" /\ OnlyRepositoryAnalyses)
        => \E fresh \in { analyze_repository(NewFeatureCategorizer, RepoPath, fs).ret } :
              /\ ret.categories = fresh.categories
              /\ ret.summary.features_by_category = fresh.summary.features_by_category

(***************************************************************************)
(* The two dependency categorizers on one requirements.txt:                *)
(* FeatureCategorizer.analyze_repository reads the file, and               *)
(* create_comprehensive_feature_analysis starts from the JSON dump of its  *)
(* result.                                                                 *)
(***************************************************************************)
MaxDeps == 2

DependencyLines ==
    { "edge-tts==1.2.3", "edge-tts", "Edge_TTS>=6.1", "sounddevice", "soundfile<=0.12",
      "PyAudio~=0.2", "audio-translate==1.0", "pydub", "requests>=2.0,<3.0",
      "translate==3.6", "pycryptodome", "prompt_toolkit<=3.0", "fake_useragent",
      "colorama!=0.4", "regex", "httpx==0.2 # no sound" }

InitDeps ==
    /\ driver = "dependencies"
    /\ \E n \in 1..MaxDeps : \E lines \in [1..n -> DependencyLines] :
          /\ fs = [NoFiles EXCEPT ![RequirementsTxt] =
                      TextFile(Join([i \in 1..n |-> lines[i] \o "\n"]))]
          /\ input = lines
    /\ pc = "start"
    /\ idx = 0
    /\ local = <<>>
    /\ out = <<>>
    /\ ret = <<>>

\* results = FeatureCategorizer().analyze_repository(repo_path), then
\* create_comprehensive_feature_analysis() on the dump of results
CategorizeRequirements ==
    /\ driver = "dependencies" /\ pc = "start"
    /\ \E results \in { analyze_repository(NewFeatureCategorizer, RepoPath, fs).ret } :
          ret' = [results |-> results,
                  enhanced |-> create_comprehensive_feature_analysis(results)]
    /\ pc' = "categorized"
    /\ UNCHANGED <<input, driver, fs, idx, local, out>>

SpecDeps == InitDeps /\ [][CategorizeRequirements]_vars

\* the package name of a requirement: the text before the first character of
\* a version specifier (==, >=, <=, ~=, !=, <, >)
NamePart(dep) ==
    LET at == { i \in 1..Len(dep) : Ch(dep, i) \in {"=", "<", ">", "~", "!"} }
    IN  IF at = {} THEN dep
        ELSE SubSeq(dep, 1, (CHOOSE i \in at : \A j \in at : i <= j) - 1)

IsVoiceName(dep) ==
    \/ Contains("tts", lower(NamePart(dep)))
    \/ Contains("audio", lower(NamePart(dep)))
    \/ Contains("sound", lower(NamePart(dep)))

\* how many times x occurs in the list s
Occurrences(s, x) == Cardinality({ i \in 1..Len(s) : s[i] = x })

\* how many times dependency dep occurs in the lists of a categorized dict
TimesFiled(by_category, dep) ==
    SeqSum([i \in 1..Len(by_category) |-> Occurrences(by_category[i].value, dep)])

\* the names filed under a category of dependency_features
FiledNames(dependency_features, category) ==
    IF DictHas(dependency_features, category)
    THEN [i \in 1..Len(DictLookup(dependency_features, category)) |->
             DictLookup(dependency_features, category)[i].dependency]
    ELSE <<>>

\* C17: in the results of both categorizers every requirement is filed under
\* exactly one category, as often as the file lists it, and a requirement whose
\* package name contains tts, audio or sound is filed under voice_processing.
C17_VoiceDependencies ==
    pc = "categorized" =>
        \A i \in 1..Len(ret.results.dependencies) :
            \E dep \in { ret.results.dependencies[i] } :
                /\ TimesFiled(ret.results.dependencies_by_category, dep)
                      = Occurrences(ret.results.dependencies, dep)
                /\ TimesFiled(DependencyNames(ret.enhanced.dependency_features),
                              [str |-> dep])
                      = Occurrences(ret.results.dependencies, dep)
                /\ IsVoiceName(dep) =>
                      /\ DictHas(ret.results.dependencies_by_category, "voice_processing")
                      /\ Occurrences(DictLookup(ret.results.dependencies_by_category,
                                                "voice_processing"), dep) > 0
                      /\ Occurrences(FiledNames(ret.enhanced.dependency_features,
                                                "voice_processing"), dep) > 0

\* edge-tts==1.2.3 read from requirements.txt and filed under voice_processing by
\* both categorizers, next to a requirement of another category
C17_Witness ==
    /\ pc = "categorized"
    /\ ret.results.dependencies = <<"requests>=2.0,<3.0", "edge-tts==1.2.3">>
    /\ DictLookup(ret.results.dependencies_by_category, "voice_processing")
          = <<"edge-tts==1.2.3">>
    /\ FiledNames(ret.enhanced.dependency_features, "voice_processing")
          = <<"edge-tts==1.2.3">>

(***************************************************************************)
(* The category sections of the two Markdown memory files, rendered from   *)
(* the analysis of an install.py that defines n functions and m classes.   *)
(***************************************************************************)
MaxFeatures == 12
MaxClasses == 2

\* install.py with functions install_a, install_b, ... and classes ParseA, ...
ManyDefinitions(n, m) ==
    Module([i \in 1..n |->
              FunctionDef("install_" \o Ch(LowerCase, i),
                          Arguments(<<>>, <<>>, <<>>, <<>>, <<>>), <<Pass>>, <<>>)]
           \o [i \in 1..m |-> ClassDef("Parse" \o Ch(UpperCase, i), <<>>, <<Pass>>)])

InitRender ==
    /\ driver = "write_to_serena"
    /\ \E n \in 0..MaxFeatures, m \in 0..MaxClasses,
          r \in { Missing, TextFile("edge-tts==1.2.3\nrequests>=2.0\n") } :
          /\ fs = [NoFiles EXCEPT
                      ![InstallPy] = Parsed(SourceOf(ManyDefinitions(n, m)),
                                            ManyDefinitions(n, m)),
                      ![RequirementsTxt] = r]
          /\ input = [functions |-> n, classes |-> m]
    /\ pc = "start"
    /\ idx = 0
    /\ local = <<>>
    /\ out = <<>>
    /\ ret = <<>>

\* sensai_feature_analysis.py and then enhanced_sensai_analysis.py: the
\* category sections each of them renders
RenderMemories ==
    /\ driver = "write_to_serena" /\ pc = "start"
    /\ \E results \in { analyze_repository(NewFeatureCategorizer, RepoPath, fs).ret } :
          \E enhanced \in { create_comprehensive_feature_analysis(results) } :
              /\ local' = [results |-> results, enhanced |-> enhanced]
              /\ out' = DictSet(DictSet(out, SensaiMd,
                                        [lines |-> FeatureCategoriesMd(results)]),
                                EnhancedMd, [lines |-> CategorySummaryMd(enhanced)])
    /\ pc' = "rendered"
    /\ UNCHANGED <<input, ret, driver, fs, idx>>

SpecRender == InitRender /\ [][RenderMemories]_vars

\* the lines of the section whose header is line h: down to the next header
SectionAt(lines, h) ==
    LET later == { i \in (h + 1)..Len(lines) : Prefix(lines[i], 4) = "### " }
    IN  SubSeq(lines, h,
               IF later = {} THEN Len(lines)
               ELSE (CHOOSE i \in later : \A j \in later : i <= j) - 1)

IsBullet(line) == Prefix(line, 2) = "- "
IsMoreLine(line) == Prefix(line, 10) = "- ... and "

\* section is the section of a category with these items, cut at N items; an
\* item line starts with "- ", mark, the name of the item, mark
SectionShows(section, items, N, mark) ==
    LET bullets == SelectSeq(section, IsBullet)
        shown == IF Len(items) < N THEN Len(items) ELSE N
    IN  /\ Len(bullets) = shown + (IF Len(items) > N THEN 1 ELSE 0)
        /\ \A i \in 1..shown :
              /\ ~IsMoreLine(bullets[i])
              /\ Prefix(bullets[i], Len("- " \o mark \o ItemName(items[i]) \o mark))
                    = "- " \o mark \o ItemName(items[i]) \o mark
        /\ Len(items) > N =>
              bullets[shown + 1] = "- ... and " \o ToString(Len(items) - N) \o " more"

\* lines has one section per category of the dict, and the section of each
\* category has the full count in its header and shows its first N items
DocumentShows(lines, categories, N, mark, unit) ==
    /\ Cardinality({ h \in 1..Len(lines) : Prefix(lines[h], 4) = "### " })
          = Len(categories)
    /\ \A c \in 1..Len(categories) :
          \E h \in 1..Len(lines) :
              /\ lines[h] = "### " \o CategoryTitle(categories[c].key) \o " ("
                            \o ToString(Len(categories[c].value)) \o " " \o unit \o ")"
              /\ SectionShows(SectionAt(lines, h), categories[c].value, N, mark)

\* C18: in both memory files the section of a category lists the first
\* min(len, N) items of the category in their order, then "... and K more"
\* with K = len - N exactly when len > N, under a header that shows len
\* (N = 10 in write_to_serena, N = 5 in write_enhanced_to_serena).
C18_SectionsListFirstNItems ==
    pc = "rendered" =>
        /\ DocumentShows(DictLookup(out, SensaiMd).lines, local.results.categories,
                         10, "**", "features")
        /\ DocumentShows(DictLookup(out, EnhancedMd).lines,
                         local.enhanced.feature_categories, 5, "", "items")

\* a category of 12 functions rendered by both: 10 of them and "... and 2 more"
\* in one file, 5 of them and "... and 7 more" in the other
C18_Witness ==
    /\ pc = "rendered"
    /\ DictHas(local.results.categories, "installation")
    /\ Len(DictLookup(local.results.categories, "installation")) = 12
    /\ \E i \in 1..Len(DictLookup(out, SensaiMd).lines) :
          DictLookup(out, SensaiMd).lines[i] = "- ... and 2 more"
    /\ \E i \in 1..Len(DictLookup(out, EnhancedMd).lines) :
          DictLookup(out, EnhancedMd).lines[i] = "- ... and 7 more"

====
